---- MODULE Spec2Model ----
(***************************************************************************)
(* Preset serialization core of ToneTerminal: the format utilities         *)
(* (sanitizeFilename, escapeValue, sortChainPlugins), the per-target       *)
(* serializers, the serializer registry (serializePreset) and the DAW      *)
(* identity table.                                                         *)
(*                                                                         *)
(* A JavaScript string is a sequence of one-character strings, so that     *)
(* every replace(), trim() and toLowerCase() is computed character by      *)
(* character.  Serialized text is a sequence of tokens: a token is either  *)
(* one character of caller data or a literal fragment of a template; the   *)
(* delimiters "=" and "\n" are always tokens of their own.                 *)
(* An optional value (undefined / null in the source) is the empty         *)
(* sequence, a present value v is <<v>>.                                   *)
(***************************************************************************)
EXTENDS Integers, Sequences, FiniteSets, TLC

\* The frame of the call under observation:
\*   op           the exported function that was called
\*   target       the id of the serializer object, for a direct serialize() call
\*   chain        the PluginChain argument, as it was when the call started
\*   after        the caller's PluginChain object, as it is when the call ends
\*   handed       the PluginChain the selected serializer's serialize() received
\*   writerFails  whether the archive / compression writer fails during the call
\*   outcome      how the call ended: "returned", or the error it ended with
\*   preset       the SerializedPreset returned
\*   coverage     the ExporterCoverage returned
\*   sorted       the array returned by sortChainPlugins
\*   text         the string argument
\*   result       the string (or DawId | null) returned
VARIABLES op, target, chain, after, handed, writerFails, outcome, preset, coverage,
          sorted, text, result

frameVars ==
  <<op, target, chain, after, handed, writerFails, outcome, preset, coverage,
    sorted, text, result>>

\* Concurrent serializePreset calls of one server process:
\*   now       the wall clock, in the two-second units of a zip entry's date
\*   calls     each caller's serializePreset call: where it is, its chain, the
\*             clock when it started and the SerializedPreset it resolved with
\*   archives  the JSZip objects, each the entries added to it so far
VARIABLES now, calls, archives

archiveVars == <<now, calls, archives>>

\* Accounts of one deployment:
\*   bypass    BYPASS_PLAN_GATES, read from the environment when the module loads
\*   profiles  the rows of the profiles table, by user id
\*   seeded    the rows of the profiles table before the first request
\*   requests  the requests being handled: the handler, its input, the await it
\*             is suspended at, its local variables and its response
VARIABLES bypass, profiles, seeded, requests

accountVars == <<bypass, profiles, seeded, requests>>

vars == <<frameVars, archiveVars, accountVars>>

(***************************************************************************)
(* Bounds of the explored inputs.                                          *)
(***************************************************************************)
MaxNameLen == 4
MaxValueLen == 4
MaxSortLen == 3
MaxXmlLen == 4
MaxPlugins == 2
MaxCallers == 2
MaxClock == 1
MaxRequests == 2

(***************************************************************************)
(* Optional values.                                                        *)
(***************************************************************************)
None == <<>>
Some(v) == <<v>>
IsSome(o) == Len(o) > 0
Get(o) == o[1]

(***************************************************************************)
(* Characters and generic string helpers.                                  *)
(***************************************************************************)
UpperChars ==
  {"A", "B", "C", "D", "E", "F", "G", "H", "I", "J", "K", "L", "M",
   "N", "O", "P", "Q", "R", "S", "T", "U", "V", "W", "X", "Y", "Z"}

LowerChars ==
  {"a", "b", "c", "d", "e", "f", "g", "h", "i", "j", "k", "l", "m",
   "n", "o", "p", "q", "r", "s", "t", "u", "v", "w", "x", "y", "z"}

DigitChars == {"0", "1", "2", "3", "4", "5", "6", "7", "8", "9"}

WhitespaceChars == {" ", "\t", "\n", "\r"}

ControlChars == {"\t", "\n", "\r"}

LowerOf ==
  [c \in UpperChars |->
     CASE c = "A" -> "a" [] c = "B" -> "b" [] c = "C" -> "c" [] c = "D" -> "d"
       [] c = "E" -> "e" [] c = "F" -> "f" [] c = "G" -> "g" [] c = "H" -> "h"
       [] c = "I" -> "i" [] c = "J" -> "j" [] c = "K" -> "k" [] c = "L" -> "l"
       [] c = "M" -> "m" [] c = "N" -> "n" [] c = "O" -> "o" [] c = "P" -> "p"
       [] c = "Q" -> "q" [] c = "R" -> "r" [] c = "S" -> "s" [] c = "T" -> "t"
       [] c = "U" -> "u" [] c = "V" -> "v" [] c = "W" -> "w" [] c = "X" -> "x"
       [] c = "Y" -> "y" [] c = "Z" -> "z"]

toLowerCase(s) ==
  [i \in 1..Len(s) |-> IF s[i] \in UpperChars THEN LowerOf[s[i]] ELSE s[i]]

RECURSIVE DropWhileIn(_, _)
DropWhileIn(s, set) ==
  IF s = <<>> THEN <<>>
  ELSE IF Head(s) \in set THEN DropWhileIn(Tail(s), set)
  ELSE s

\* s.replace(/[set]+/g, rep): every maximal run of characters of set
\* becomes one copy of rep.
RECURSIVE ReplaceRunsIn(_, _, _)
ReplaceRunsIn(s, set, rep) ==
  IF s = <<>> THEN <<>>
  ELSE IF Head(s) \in set
       THEN rep \o ReplaceRunsIn(DropWhileIn(s, set), set, rep)
       ELSE <<Head(s)>> \o ReplaceRunsIn(Tail(s), set, rep)

RECURSIVE DropWhileNotIn(_, _)
DropWhileNotIn(s, set) ==
  IF s = <<>> THEN <<>>
  ELSE IF Head(s) \notin set THEN DropWhileNotIn(Tail(s), set)
  ELSE s

\* s.replace(/[^set]+/g, rep)
RECURSIVE ReplaceRunsNotIn(_, _, _)
ReplaceRunsNotIn(s, set, rep) ==
  IF s = <<>> THEN <<>>
  ELSE IF Head(s) \notin set
       THEN rep \o ReplaceRunsNotIn(DropWhileNotIn(s, set), set, rep)
       ELSE <<Head(s)>> \o ReplaceRunsNotIn(Tail(s), set, rep)

Reverse(s) == [i \in 1..Len(s) |-> s[Len(s) + 1 - i]]

\* s.replace(/^[set]+|[set]+$/g, "")
StripBothEnds(s, set) ==
  Reverse(DropWhileIn(Reverse(DropWhileIn(s, set)), set))

trim(s) == StripBothEnds(s, WhitespaceChars)

\* s.replace(/\s+/g, "_")
UnderscoreWhitespace(s) == ReplaceRunsIn(s, WhitespaceChars, <<"_">>)

StringsUpTo(alphabet, n) == UNION {[1..k -> alphabet] : k \in 0..n}

Contains(s, c) == \E i \in 1..Len(s) : s[i] = c

ContainsPair(s, c, d) == \E i \in 1..(Len(s) - 1) : s[i] = c /\ s[i + 1] = d

(***************************************************************************)
(* Format utilities (exporters/utils).                                     *)
(***************************************************************************)
FilenameSafeChars == UpperChars \cup LowerChars \cup DigitChars \cup {".", "_", "-"}

DefaultFilenameFallback == <<"t", "o", "n", "e", "-", "t", "e", "r", "m", "i", "n", "a", "l">>

\* sanitizeFilename without the `|| fallback`
sanitizeFilenameNoFallback(name, fallback) ==
  toLowerCase(StripBothEnds(ReplaceRunsIn(ReplaceRunsNotIn(name, FilenameSafeChars, <<"_">>),
                                          {"_"}, <<"_">>), {"_"}))

sanitizeFilename(name, fallback) ==
  LET replaced  == ReplaceRunsNotIn(name, FilenameSafeChars, <<"_">>)
      collapsed == ReplaceRunsIn(replaced, {"_"}, <<"_">>)
      trimmed   == StripBothEnds(collapsed, {"_"})
      safe      == toLowerCase(trimmed)
  IN IF safe # <<>> THEN safe ELSE fallback

\* value.replace(/\r?\n/g, " ").replace(/=/g, "-")
RECURSIVE ReplaceLineBreaks(_)
ReplaceLineBreaks(s) ==
  IF s = <<>> THEN <<>>
  ELSE IF Len(s) >= 2 /\ s[1] = "\r" /\ s[2] = "\n"
       THEN <<" ">> \o ReplaceLineBreaks(SubSeq(s, 3, Len(s)))
  ELSE IF s[1] = "\n"
       THEN <<" ">> \o ReplaceLineBreaks(Tail(s))
  ELSE <<s[1]>> \o ReplaceLineBreaks(Tail(s))

escapeValue(value) ==
  LET oneLine == ReplaceLineBreaks(value)
  IN [i \in 1..Len(oneLine) |-> IF oneLine[i] = "=" THEN "-" ELSE oneLine[i]]

\* The comparator with its operands swapped: (a, b) => b.order - a.order
CompareOrderDescending(a, b) == b.order - a.order

\* The comparator of sortChainPlugins: (a, b) => a.order - b.order
CompareOrder(a, b) == a.order - b.order

\* Array.prototype.sort is a stable sort (ECMAScript 2019): an element is
\* placed before the first element that compares greater than it.
RECURSIVE InsertSorted(_, _)
InsertSorted(s, e) ==
  IF s = <<>> THEN <<e>>
  ELSE IF CompareOrder(Head(s), e) > 0 THEN <<e>> \o s
  ELSE <<Head(s)>> \o InsertSorted(Tail(s), e)

RECURSIVE StableSort(_)
StableSort(s) ==
  IF s = <<>> THEN <<>>
  ELSE InsertSorted(StableSort(SubSeq(s, 1, Len(s) - 1)), s[Len(s)])

\* The order key of the plugin at 1-based position i: its slotIndex when
\* that is a number, else its 0-based array index.
OrderKey(plugins, i) ==
  IF IsSome(plugins[i].slotIndex) THEN Get(plugins[i].slotIndex) ELSE i - 1

sortChainPlugins(c) ==
  LET entries == [i \in 1..Len(c.plugins) |->
                    [plugin |-> c.plugins[i], order |-> OrderKey(c.plugins, i)]]
      ordered == StableSort(entries)
  IN [i \in 1..Len(ordered) |-> ordered[i].plugin]

(***************************************************************************)
(* DAW identity resolution (data/daws, lib/daws).                          *)
(***************************************************************************)
DAWS ==
  <<[id |-> <<"f", "l", "_", "s", "t", "u", "d", "i", "o">>,
     label |-> <<"F", "L", " ", "S", "t", "u", "d", "i", "o">>],
    [id |-> <<"a", "b", "l", "e", "t", "o", "n", "_", "l", "i", "v", "e">>,
     label |-> <<"A", "b", "l", "e", "t", "o", "n", " ", "L", "i", "v", "e">>],
    [id |-> <<"l", "o", "g", "i", "c", "_", "p", "r", "o">>,
     label |-> <<"L", "o", "g", "i", "c", " ", "P", "r", "o">>],
    [id |-> <<"p", "r", "o", "_", "t", "o", "o", "l", "s">>,
     label |-> <<"P", "r", "o", " ", "T", "o", "o", "l", "s">>],
    [id |-> <<"r", "e", "a", "p", "e", "r">>,
     label |-> <<"R", "e", "a", "p", "e", "r">>],
    [id |-> <<"c", "u", "b", "a", "s", "e">>,
     label |-> <<"C", "u", "b", "a", "s", "e">>],
    [id |-> <<"s", "t", "u", "d", "i", "o", "_", "o", "n", "e">>,
     label |-> <<"S", "t", "u", "d", "i", "o", " ", "O", "n", "e">>],
    [id |-> <<"b", "i", "t", "w", "i", "g">>,
     label |-> <<"B", "i", "t", "w", "i", "g">>],
    [id |-> <<"r", "e", "a", "s", "o", "n">>,
     label |-> <<"R", "e", "a", "s", "o", "n">>],
    [id |-> <<"n", "u", "e", "n", "d", "o">>,
     label |-> <<"N", "u", "e", "n", "d", "o">>],
    [id |-> <<"g", "a", "r", "a", "g", "e", "b", "a", "n", "d">>,
     label |-> <<"G", "a", "r", "a", "g", "e", "B", "a", "n", "d">>],
    [id |-> <<"d", "i", "g", "i", "t", "a", "l", "_", "p", "e", "r", "f", "o", "r", "m", "e", "r">>,
     label |-> <<"D", "i", "g", "i", "t", "a", "l", " ", "P", "e", "r", "f", "o", "r", "m", "e", "r">>],
    [id |-> <<"s", "a", "m", "p", "l", "i", "t", "u", "d", "e">>,
     label |-> <<"S", "a", "m", "p", "l", "i", "t", "u", "d", "e">>],
    [id |-> <<"c", "a", "k", "e", "w", "a", "l", "k">>,
     label |-> <<"C", "a", "k", "e", "w", "a", "l", "k">>],
    [id |-> <<"a", "r", "d", "o", "u", "r">>,
     label |-> <<"A", "r", "d", "o", "u", "r">>],
    [id |-> <<"m", "i", "x", "b", "u", "s">>,
     label |-> <<"H", "a", "r", "r", "i", "s", "o", "n", " ", "M", "i", "x", "b", "u", "s">>],
    [id |-> <<"w", "a", "v", "e", "f", "o", "r", "m">>,
     label |-> <<"T", "r", "a", "c", "k", "t", "i", "o", "n", " ", "W", "a", "v", "e", "f", "o", "r", "m">>]>>

\* LABEL_TO_ID is a plain object literal: a lookup of a key it does not own
\* falls through to Object.prototype.  The all-lowercase inherited keys answer
\* with a function or an object, which is not nullish.
ObjectPrototypeKeys ==
  { <<"c", "o", "n", "s", "t", "r", "u", "c", "t", "o", "r">>,
    <<"_", "_", "p", "r", "o", "t", "o", "_", "_">> }

\* The inherited value, as the string it becomes where a string is needed.
InheritedValue == <<"[inherited]">>

\* Object.entries(DAWS).reduce(...): a later entry with the same lowercased
\* label overwrites an earlier one.
LABEL_TO_ID(normalized) ==
  LET hits == {i \in 1..Len(DAWS) : toLowerCase(DAWS[i].label) = normalized}
  IN IF hits # {} THEN Some(DAWS[CHOOSE i \in hits : \A j \in hits : j <= i].id)
     ELSE IF normalized \in ObjectPrototypeKeys THEN Some(InheritedValue)
     ELSE None

labelToDawId(label) ==
  IF ~IsSome(label) \/ Get(label) = <<>> THEN None
  ELSE LABEL_TO_ID(toLowerCase(trim(Get(label))))

\* chain.dawId ?? labelToDawId(chain.daw) ?? chain.daw.toLowerCase().replace(/\s+/g, "_")
ResolveDawId(c) ==
  IF IsSome(c.dawId) THEN Get(c.dawId)
  ELSE IF IsSome(labelToDawId(Some(c.daw))) THEN Get(labelToDawId(Some(c.daw)))
  ELSE UnderscoreWhitespace(toLowerCase(c.daw))

(***************************************************************************)
(* Native exporter metadata (data/nativeExporters).                        *)
(***************************************************************************)
NATIVE_EXPORTER_INFO ==
  <<[id |-> <<"r", "e", "a", "p", "e", "r">>,
     label |-> <<"R", "e", "a", "p", "e", "r">>,
     formatLabel |-> "Reaper RFX Chain",
     fileExtension |-> <<".", "r", "f", "x", "c", "h", "a", "i", "n">>,
     serializerId |-> "reaper-rfx"],
    [id |-> <<"f", "l", "_", "s", "t", "u", "d", "i", "o">>,
     label |-> <<"F", "L", " ", "S", "t", "u", "d", "i", "o">>,
     formatLabel |-> "FL Studio Mixer State (.fst)",
     fileExtension |-> <<".", "f", "s", "t">>,
     serializerId |-> "fl-studio-fst"],
    [id |-> <<"a", "b", "l", "e", "t", "o", "n", "_", "l", "i", "v", "e">>,
     label |-> <<"A", "b", "l", "e", "t", "o", "n", " ", "L", "i", "v", "e">>,
     formatLabel |-> "Ableton Device Rack (.adg)",
     fileExtension |-> <<".", "a", "d", "g">>,
     serializerId |-> "ableton-adg"],
    [id |-> <<"l", "o", "g", "i", "c", "_", "p", "r", "o">>,
     label |-> <<"L", "o", "g", "i", "c", " ", "P", "r", "o">>,
     formatLabel |-> "Logic Channel Strip (.patch)",
     fileExtension |-> <<".", "p", "a", "t", "c", "h">>,
     serializerId |-> "logic-patch"],
    [id |-> <<"p", "r", "o", "_", "t", "o", "o", "l", "s">>,
     label |-> <<"P", "r", "o", " ", "T", "o", "o", "l", "s">>,
     formatLabel |-> "Pro Tools XML Preset",
     fileExtension |-> <<".", "p", "t", "p", "r", "e", "s", "e", "t", ".", "x", "m", "l">>,
     serializerId |-> "pro-tools-xml"],
    [id |-> <<"s", "t", "u", "d", "i", "o", "_", "o", "n", "e">>,
     label |-> <<"S", "t", "u", "d", "i", "o", " ", "O", "n", "e">>,
     formatLabel |-> "Studio One Preset (.preset)",
     fileExtension |-> <<".", "p", "r", "e", "s", "e", "t">>,
     serializerId |-> "studio-one-preset"]>>

(***************************************************************************)
(* Chain model (exporters/types).                                          *)
(***************************************************************************)
NoIdentifiers ==
  [flStudio |-> None, ableton |-> None, proTools |-> None, studioOne |-> None,
   vst3 |-> None, aax |-> None, generic |-> None]

\* The truthiness of an optional string: null, undefined and "" are falsy.
Truthy(o) == IsSome(o) /\ Get(o) # <<>>

IsBypassed(plugin) == IsSome(plugin.bypassed) /\ Get(plugin.bypassed)

\* chain.song?.title
SongTitle(c) == IF IsSome(c.song) THEN Get(c.song).title ELSE None

SongArtist(c) == IF IsSome(c.song) THEN Get(c.song).artist ELSE None

\* a ?? b for optional values
Coalesce(a, b) == IF IsSome(a) THEN a ELSE b

\* parts.join(sep)
RECURSIVE Join(_, _)
Join(parts, sep) ==
  IF parts = <<>> THEN <<>>
  ELSE IF Len(parts) = 1 THEN parts[1]
  ELSE parts[1] \o sep \o Join(Tail(parts), sep)

\* array.filter(Boolean) on an array of strings and nulls: null and the
\* empty string are both dropped.
FilterBoolean(items) ==
  LET kept == SelectSeq(items, Truthy)
  IN [i \in 1..Len(kept) |-> Get(kept[i])]

\* Every modelled character is ASCII: its UTF-8 encoding is the one byte of
\* its code unit, so the buffer holds the same sequence.
encodeUtf8(value) == value

PlainData(body) == [container |-> "plain", files |-> <<[path |-> "", body |-> body]>>]

(***************************************************************************)
(* FL Studio mixer state serializer (exporters/flStudioFst).               *)
(***************************************************************************)
\* formatParameterLines numbering the entries from 1
formatParameterLinesOneBased(plugin) ==
  LET entries == plugin.settings
  IN IF Len(entries) = 0
     THEN << <<"Param", "0", "=", "Default", "=", "0">> >>
     ELSE [i \in 1..Len(entries) |->
             <<"Param", ToString(i), "=">> \o escapeValue(entries[i].key)
               \o <<"=">> \o escapeValue(entries[i].value)]

formatParameterLines(plugin) ==
  LET entries == plugin.settings
  IN IF Len(entries) = 0
     THEN << <<"Param", "0", "=", "Default", "=", "0">> >>
     ELSE [i \in 1..Len(entries) |->
             <<"Param", ToString(i - 1), "=">> \o escapeValue(entries[i].key)
               \o <<"=">> \o escapeValue(entries[i].value)]

FlIdentifier(plugin) ==
  LET ids == IF IsSome(plugin.identifiers) THEN Get(plugin.identifiers) ELSE NoIdentifiers
  IN Get(Coalesce(ids.flStudio, Coalesce(ids.vst3, Coalesce(ids.generic, Some(plugin.name)))))

formatSlot(index, plugin) ==
  LET head == << Some(<<"[Slot", ToString(index), "]">>),
                 Some(<<"Name", "=">> \o escapeValue(FlIdentifier(plugin))),
                 Some(<<"DisplayName", "=">> \o escapeValue(plugin.name)),
                 Some(<<"Type", "=">> \o escapeValue(plugin.type)),
                 Some(<<"State", "=", IF IsBypassed(plugin) THEN "Bypassed" ELSE "Active">>) >>
      comment == IF Truthy(plugin.comment)
                 THEN << Some(<<"Comment", "=">> \o escapeValue(Get(plugin.comment))) >>
                 ELSE <<>>
      params == IF IsSome(plugin.parameters) /\ Len(Get(plugin.parameters)) > 0
                THEN [i \in 1..Len(Get(plugin.parameters)) |->
                        LET param == Get(plugin.parameters)[i]
                        IN <<"Param", ToString(i - 1), "=">>
                             \o escapeValue(Get(Coalesce(param.label, Some(param.id))))
                             \o <<"=">> \o escapeValue(param.value)]
                ELSE formatParameterLines(plugin)
      section == head \o comment \o [i \in 1..Len(params) |-> Some(params[i])]
  IN Join(FilterBoolean(section), <<"\n">>)

\* buildFst numbering the slots from 1: formatSlot(index + 1, plugin)
buildFstOneBased(c) ==
  LET ordered == sortChainPlugins(c)
      header == Join(FilterBoolean(
                  << Some(<<"[ToneTerminalFST]">>),
                     Some(<<"Version", "=", "1">>),
                     Some(<<"CreatedBy", "=", "ToneTerminal">>),
                     Some(<<"DAW", "=">> \o escapeValue(c.daw)),
                     IF Truthy(SongTitle(c))
                       THEN Some(<<"Song", "=">> \o escapeValue(Get(SongTitle(c)))) ELSE None,
                     IF Truthy(c.clipWindow)
                       THEN Some(<<"ClipWindow", "=">> \o escapeValue(Get(c.clipWindow))) ELSE None,
                     IF Truthy(c.summary)
                       THEN Some(<<"Summary", "=">> \o escapeValue(Get(c.summary))) ELSE None,
                     Some(<<"SlotCount", "=", ToString(Len(ordered))>>),
                     Some(<<>>) >>), <<"\n">>)
      slots == Join([i \in 1..Len(ordered) |-> formatSlot(i, ordered[i])], <<"\n", "\n">>)
  IN header \o slots \o <<"\n">>

buildFst(c) ==
  LET ordered == sortChainPlugins(c)
      header == Join(FilterBoolean(
                  << Some(<<"[ToneTerminalFST]">>),
                     Some(<<"Version", "=", "1">>),
                     Some(<<"CreatedBy", "=", "ToneTerminal">>),
                     Some(<<"DAW", "=">> \o escapeValue(c.daw)),
                     IF Truthy(SongTitle(c))
                       THEN Some(<<"Song", "=">> \o escapeValue(Get(SongTitle(c)))) ELSE None,
                     IF Truthy(c.clipWindow)
                       THEN Some(<<"ClipWindow", "=">> \o escapeValue(Get(c.clipWindow))) ELSE None,
                     IF Truthy(c.summary)
                       THEN Some(<<"Summary", "=">> \o escapeValue(Get(c.summary))) ELSE None,
                     Some(<<"SlotCount", "=", ToString(Len(ordered))>>),
                     Some(<<>>) >>), <<"\n">>)
      slots == Join([i \in 1..Len(ordered) |-> formatSlot(i - 1, ordered[i])], <<"\n", "\n">>)
  IN header \o slots \o <<"\n">>

\* chain.song?.title ?? chain.summary ?? `${chain.daw.replace(/\s+/g, "_")}${suffix}`
\* safeBase with the summary taken before the song title
SafeBaseSummaryFirst(c, suffix) ==
  Get(Coalesce(c.summary, Coalesce(SongTitle(c), Some(UnderscoreWhitespace(c.daw) \o suffix))))

SafeBase(c, suffix) ==
  Get(Coalesce(SongTitle(c), Coalesce(c.summary, Some(UnderscoreWhitespace(c.daw) \o suffix))))

FlStudioFstSerialize(c) ==
  [filename |-> sanitizeFilename(SafeBase(c, <<"_", "c", "h", "a", "i", "n">>), DefaultFilenameFallback)
                  \o <<".", "f", "s", "t">>,
   mime |-> "application/octet-stream",
   data |-> PlainData(encodeUtf8(buildFst(c))),
   serializerId |-> "fl-studio-fst",
   label |-> "FL Studio Mixer State",
   isNative |-> TRUE]

(***************************************************************************)
(* XML helpers shared by the XML-based serializers.                        *)
(***************************************************************************)
\* value.replace(/c/g, rep) for a single character c
RECURSIVE ReplaceChar(_, _, _)
ReplaceChar(s, c, rep) ==
  IF s = <<>> THEN <<>>
  ELSE (IF Head(s) = c THEN rep ELSE <<Head(s)>>) \o ReplaceChar(Tail(s), c, rep)

\* xmlEscape with the ampersand replaced after the other four characters
xmlEscapeAmpersandLast(value) ==
  LET lt   == ReplaceChar(value, "<", <<"&", "l", "t", ";">>)
      gt   == ReplaceChar(lt, ">", <<"&", "g", "t", ";">>)
      quot == ReplaceChar(gt, "\"", <<"&", "q", "u", "o", "t", ";">>)
      apos == ReplaceChar(quot, "'", <<"&", "a", "p", "o", "s", ";">>)
  IN ReplaceChar(apos, "&", <<"&", "a", "m", "p", ";">>)

\* An xmlEscape that returns its argument
xmlEscapeNothing(value) == value

xmlEscape(value) ==
  LET amp  == ReplaceChar(value, "&", <<"&", "a", "m", "p", ";">>)
      lt   == ReplaceChar(amp, "<", <<"&", "l", "t", ";">>)
      gt   == ReplaceChar(lt, ">", <<"&", "g", "t", ";">>)
      quot == ReplaceChar(gt, "\"", <<"&", "q", "u", "o", "t", ";">>)
  IN ReplaceChar(quot, "'", <<"&", "a", "p", "o", "s", ";">>)

\* Indentation fragments of the XML templates count as whitespace.
XmlWhitespace == WhitespaceChars \cup {"  ", "    ", "      ", "        ", "          "}

\* value.trim(), then a trailing newline unless one is already there
prettyXml(value) ==
  LET trimmed == StripBothEnds(value, XmlWhitespace)
  IN IF trimmed # <<>> /\ trimmed[Len(trimmed)] = "\n" THEN trimmed
     ELSE trimmed \o <<"\n">>

XmlDeclaration == <<"<?xml version=\"1.0\" encoding=\"UTF-8\"?>", "\n">>

BoolText(b) == IF b THEN "true" ELSE "false"

EscapedOrEmpty(o) == IF Truthy(o) THEN xmlEscape(Get(o)) ELSE <<>>

Identifiers(plugin) ==
  IF IsSome(plugin.identifiers) THEN Get(plugin.identifiers) ELSE NoIdentifiers

\* <Parameter index=".." name=".." value=".."/> for every settings entry
IndexedParameters(plugin) ==
  Join([i \in 1..Len(plugin.settings) |->
          <<"<Parameter index=\"", ToString(i - 1), "\" name=\"">>
            \o xmlEscape(plugin.settings[i].key) \o <<"\" value=\"">>
            \o xmlEscape(plugin.settings[i].value) \o <<"\"/>">>], <<>>)

(***************************************************************************)
(* Pro Tools XML preset serializer (exporters/proToolsPreset).             *)
(***************************************************************************)
\* The Pro Tools identifier with the vst3 slot where the aax slot belongs
ProToolsIdentifierVst3(plugin) ==
  LET ids == Identifiers(plugin)
  IN Get(Coalesce(ids.proTools, Coalesce(ids.vst3, Coalesce(ids.generic, Some(plugin.name)))))

ProToolsIdentifier(plugin) ==
  LET ids == Identifiers(plugin)
  IN Get(Coalesce(ids.proTools, Coalesce(ids.aax, Coalesce(ids.generic, Some(plugin.name)))))

serializePlugin(plugin) ==
  <<"<PlugIn name=\"">> \o xmlEscape(plugin.name)
    \o <<"\" identifier=\"">> \o xmlEscape(ProToolsIdentifier(plugin))
    \o <<"\" category=\"">> \o xmlEscape(plugin.type)
    \o <<"\" bypassed=\"", BoolText(IsBypassed(plugin)), "\">", "\n", "    ", "<Notes>">>
    \o EscapedOrEmpty(plugin.comment)
    \o <<"</Notes>", "\n", "    ", "<Parameters>">>
    \o IndexedParameters(plugin)
    \o <<"</Parameters>", "\n", "  ", "</PlugIn>">>

ProToolsBuildPreset(c) ==
  LET ordered == sortChainPlugins(c)
      plugins == Join([i \in 1..Len(ordered) |-> serializePlugin(ordered[i])], <<>>)
      xml == XmlDeclaration
               \o <<"<PlugInPreset version=\"1.0\" creator=\"ToneTerminal\">", "\n",
                    "  ", "<Meta>", "\n", "    ", "<DAW>">> \o xmlEscape(c.daw)
               \o <<"</DAW>", "\n", "    ">>
               \o (IF Truthy(c.summary)
                   THEN <<"<Summary>">> \o xmlEscape(Get(c.summary)) \o <<"</Summary>">>
                   ELSE <<>>)
               \o <<"\n", "    ">>
               \o (IF Truthy(c.clipWindow)
                   THEN <<"<ClipWindow>">> \o xmlEscape(Get(c.clipWindow)) \o <<"</ClipWindow>">>
                   ELSE <<>>)
               \o <<"\n", "    ">>
               \o (IF IsSome(c.song)
                   THEN <<"<Song title=\"">> \o EscapedOrEmpty(SongTitle(c))
                          \o <<"\" artist=\"">> \o EscapedOrEmpty(SongArtist(c)) \o <<"\" />">>
                   ELSE <<>>)
               \o <<"\n", "  ", "</Meta>", "\n", "  ", "<PlugIns>", "\n", "    ">>
               \o plugins
               \o <<"\n", "  ", "</PlugIns>", "\n", "</PlugInPreset>">>
  IN prettyXml(xml)

ProToolsPresetSerialize(c) ==
  [filename |-> sanitizeFilename(SafeBase(c, <<"_", "p", "r", "e", "s", "e", "t">>), DefaultFilenameFallback)
                  \o <<".", "p", "t", "p", "r", "e", "s", "e", "t", ".", "x", "m", "l">>,
   mime |-> "application/xml",
   data |-> PlainData(ProToolsBuildPreset(c)),
   serializerId |-> "pro-tools-xml",
   label |-> "Pro Tools XML Preset",
   isNative |-> TRUE]

(***************************************************************************)
(* Studio One preset serializer (exporters/studioOnePreset).               *)
(***************************************************************************)
StudioOneIdentifier(plugin) ==
  LET ids == Identifiers(plugin)
  IN Get(Coalesce(ids.studioOne, Coalesce(ids.vst3, Coalesce(ids.generic, Some(plugin.name)))))

StudioOneSerializeDevice(plugin, index) ==
  <<"<Device index=\"", ToString(index), "\">", "\n", "    ", "<Name>">>
    \o xmlEscape(plugin.name)
    \o <<"</Name>", "\n", "    ", "<Identifier>">> \o xmlEscape(StudioOneIdentifier(plugin))
    \o <<"</Identifier>", "\n", "    ", "<Type>">> \o xmlEscape(plugin.type)
    \o <<"</Type>", "\n", "    ", "<Bypassed>", BoolText(IsBypassed(plugin)), "</Bypassed>",
         "\n", "    ", "<Parameters>">>
    \o IndexedParameters(plugin)
    \o <<"</Parameters>", "\n", "    ", "<Notes>">> \o EscapedOrEmpty(plugin.comment)
    \o <<"</Notes>", "\n", "  ", "</Device>">>

\* The archive writer keeps the members in the order they were added.
buildZipArchive(entries) == [container |-> "zip", files |-> entries]

StudioOneBuildPreset(c) ==
  LET ordered == sortChainPlugins(c)
      devices == Join([i \in 1..Len(ordered) |-> StudioOneSerializeDevice(ordered[i], i - 1)], <<>>)
      title == Get(Coalesce(SongTitle(c), Coalesce(c.summary, Some(<<"ToneTerminal Chain">>))))
      presetInfo ==
        prettyXml(XmlDeclaration
          \o <<"<Preset>", "\n", "  ", "<Header>", "\n", "    ", "<Title>">> \o xmlEscape(title)
          \o <<"</Title>", "\n", "    ", "<Creator>", "ToneTerminal", "</Creator>", "\n",
               "    ", "<Category>">> \o xmlEscape(c.daw) \o <<"</Category>", "\n", "    ">>
          \o (IF Truthy(c.clipWindow)
              THEN <<"<Comment>">> \o xmlEscape(Get(c.clipWindow)) \o <<"</Comment>">>
              ELSE <<>>)
          \o <<"\n", "  ", "</Header>", "\n", "  ", "<Devices>">> \o devices
          \o <<"</Devices>", "\n", "</Preset>">>)
      userData ==
        prettyXml(XmlDeclaration
          \o <<"<ToneTerminal>", "\n", "  ", "<Summary>">> \o EscapedOrEmpty(c.summary)
          \o <<"</Summary>", "\n", "  ", "<SongTitle>">> \o EscapedOrEmpty(SongTitle(c))
          \o <<"</SongTitle>", "\n", "  ", "<SongArtist>">> \o EscapedOrEmpty(SongArtist(c))
          \o <<"</SongArtist>", "\n", "  ", "<ClipWindow>">> \o EscapedOrEmpty(c.clipWindow)
          \o <<"</ClipWindow>", "\n", "</ToneTerminal>">>)
  IN buildZipArchive(<<[path |-> "PresetInfo.xml", body |-> encodeUtf8(presetInfo)],
                       [path |-> "UserData/ToneTerminal.xml", body |-> encodeUtf8(userData)]>>)

StudioOnePresetSerialize(c) ==
  [filename |-> sanitizeFilename(SafeBase(c, <<"_", "p", "r", "e", "s", "e", "t">>), DefaultFilenameFallback)
                  \o <<".", "p", "r", "e", "s", "e", "t">>,
   mime |-> "application/zip",
   data |-> StudioOneBuildPreset(c),
   serializerId |-> "studio-one-preset",
   label |-> "Studio One Native Preset",
   isNative |-> TRUE]

(***************************************************************************)
(* Ableton device rack serializer (exporters/abletonAdg).                  *)
(***************************************************************************)
AbletonIdentifier(plugin) ==
  LET ids == Identifiers(plugin)
  IN Get(Coalesce(ids.ableton, Coalesce(ids.vst3, Coalesce(ids.generic, Some(plugin.name)))))

AbletonSerializeDevice(plugin, index) ==
  LET parameters ==
        [i \in 1..Len(plugin.settings) |->
           <<"<PlugInParameter>", "\n", "        ", "<Id Value=\"">>
             \o xmlEscape(plugin.settings[i].key)
             \o <<"\"/>", "\n", "        ", "<Value Value=\"">>
             \o xmlEscape(plugin.settings[i].value)
             \o <<"\"/>", "\n", "      ", "</PlugInParameter>">>]
  IN <<"<Device>", "\n", "    ", "<AudioEffect>", "\n", "      ", "<PluginDevice>", "\n",
       "        ", "<PluginType Value=\"VST3\"/>", "\n",
       "        ", "<IsEnabled Value=\"", BoolText(~IsBypassed(plugin)), "\"/>", "\n",
       "        ", "<PresetName Value=\"">> \o xmlEscape(plugin.name)
     \o <<"\"/>", "\n", "        ", "<UserName Value=\"">> \o xmlEscape(plugin.name)
     \o <<"\"/>", "\n", "        ", "<PluginDesc>", "\n",
          "          ", "<PluginIdentifier Value=\"">> \o xmlEscape(AbletonIdentifier(plugin))
     \o <<"\"/>", "\n", "        ", "</PluginDesc>", "\n", "        ", "<Parameters>">>
     \o Join(parameters, <<>>)
     \o <<"</Parameters>", "\n", "        ", "<UserComment Value=\"">>
     \o EscapedOrEmpty(plugin.comment)
     \o <<"\"/>", "\n", "        ", "<PresentationIndex Value=\"", ToString(index), "\"/>", "\n",
          "      ", "</PluginDevice>", "\n", "    ", "</AudioEffect>", "\n", "  ", "</Device>">>

\* A rack whose devices are numbered from 1
buildAdgOneBased(c) ==
  LET ordered == sortChainPlugins(c)
      devices == Join([i \in 1..Len(ordered) |-> AbletonSerializeDevice(ordered[i], i)], <<>>)
      xml == XmlDeclaration
               \o <<"<Ableton MajorVersion=\"11\" MinorVersion=\"0\" SchemaChangeCount=\"0\" Creator=\"ToneTerminal\">",
                    "\n", "  ", "<DeviceGroup>", "\n", "    ">>
               \o (IF Truthy(c.summary)
                   THEN <<"<Annotation Author=\"ToneTerminal\">">> \o xmlEscape(Get(c.summary))
                          \o <<"</Annotation>">>
                   ELSE <<>>)
               \o <<"\n", "    ", "<DeviceChain>", "\n", "      ", "<Devices>">> \o devices
               \o <<"</Devices>", "\n", "    ", "</DeviceChain>", "\n", "  ", "</DeviceGroup>",
                    "\n", "</Ableton>">>
  IN prettyXml(xml)

buildAdg(c) ==
  LET ordered == sortChainPlugins(c)
      devices == Join([i \in 1..Len(ordered) |-> AbletonSerializeDevice(ordered[i], i - 1)], <<>>)
      xml == XmlDeclaration
               \o <<"<Ableton MajorVersion=\"11\" MinorVersion=\"0\" SchemaChangeCount=\"0\" Creator=\"ToneTerminal\">",
                    "\n", "  ", "<DeviceGroup>", "\n", "    ">>
               \o (IF Truthy(c.summary)
                   THEN <<"<Annotation Author=\"ToneTerminal\">">> \o xmlEscape(Get(c.summary))
                          \o <<"</Annotation>">>
                   ELSE <<>>)
               \o <<"\n", "    ", "<DeviceChain>", "\n", "      ", "<Devices>">> \o devices
               \o <<"</Devices>", "\n", "    ", "</DeviceChain>", "\n", "  ", "</DeviceGroup>",
                    "\n", "</Ableton>">>
  IN prettyXml(xml)

\* gzipSync(xml, {level: 9}): the payload is recovered unchanged by gunzip.
gzipSync(xml) == [container |-> "gzip", files |-> <<[path |-> "", body |-> xml]>>]

AbletonAdgSerialize(c) ==
  [filename |-> sanitizeFilename(SafeBase(c, <<"_", "r", "a", "c", "k">>), DefaultFilenameFallback)
                  \o <<".", "a", "d", "g">>,
   mime |-> "application/gzip",
   data |-> gzipSync(buildAdg(c)),
   serializerId |-> "ableton-adg",
   label |-> "Ableton Device Rack",
   isNative |-> TRUE]

(***************************************************************************)
(* JSON.stringify(value, null, 2), for the chain.json member.              *)
(***************************************************************************)
JNull == [t |-> "null"]
JStr(s) == [t |-> "str", s |-> s]
JNum(n) == [t |-> "num", n |-> n]
JBool(b) == [t |-> "bool", b |-> b]
JArr(items) == [t |-> "arr", items |-> items]
JObj(fields) == [t |-> "obj", fields |-> fields]

JsonQuote(s) ==
  LET esc(c) == CASE c = "\"" -> <<"\\", "\"">>
                  [] c = "\\" -> <<"\\", "\\">>
                  [] c = "\n" -> <<"\\", "n">>
                  [] c = "\r" -> <<"\\", "r">>
                  [] c = "\t" -> <<"\\", "t">>
                  [] OTHER -> <<c>>
  IN <<"\"">> \o Join([i \in 1..Len(s) |-> esc(s[i])], <<>>) \o <<"\"">>

JsonIndent(level) == [i \in 1..level |-> "  "]

RECURSIVE JsonStringify(_, _)
JsonStringify(v, level) ==
  CASE v.t = "null" -> <<"null">>
    [] v.t = "str" -> JsonQuote(v.s)
    [] v.t = "num" -> <<ToString(v.n)>>
    [] v.t = "bool" -> <<BoolText(v.b)>>
    [] v.t = "arr" ->
         IF Len(v.items) = 0 THEN <<"[]">>
         ELSE <<"[", "\n">>
                \o Join([i \in 1..Len(v.items) |->
                           JsonIndent(level + 1) \o JsonStringify(v.items[i], level + 1)],
                        <<",", "\n">>)
                \o <<"\n">> \o JsonIndent(level) \o <<"]">>
    [] v.t = "obj" ->
         IF Len(v.fields) = 0 THEN <<"{}">>
         ELSE <<"{", "\n">>
                \o Join([i \in 1..Len(v.fields) |->
                           JsonIndent(level + 1) \o JsonQuote(v.fields[i].k) \o <<":", " ">>
                             \o JsonStringify(v.fields[i].v, level + 1)],
                        <<",", "\n">>)
                \o <<"\n">> \o JsonIndent(level) \o <<"}">>

OptStr(o) == IF IsSome(o) THEN JStr(Get(o)) ELSE JNull

\* A property whose value is undefined is left out by JSON.stringify.
OptField(key, o, v) == IF IsSome(o) THEN <<[k |-> key, v |-> v]>> ELSE <<>>

IdentifiersJson(ids) ==
  JObj(OptField(<<"generic">>, ids.generic, OptStr(ids.generic))
       \o OptField(<<"vst3">>, ids.vst3, OptStr(ids.vst3))
       \o OptField(<<"aax">>, ids.aax, OptStr(ids.aax))
       \o OptField(<<"flStudio">>, ids.flStudio, OptStr(ids.flStudio))
       \o OptField(<<"ableton">>, ids.ableton, OptStr(ids.ableton))
       \o OptField(<<"proTools">>, ids.proTools, OptStr(ids.proTools))
       \o OptField(<<"studioOne">>, ids.studioOne, OptStr(ids.studioOne)))

ParameterJson(param) ==
  JObj(<<[k |-> <<"id">>, v |-> JStr(param.id)]>>
       \o OptField(<<"label">>, param.label, OptStr(param.label))
       \o <<[k |-> <<"value">>, v |-> JStr(param.value)]>>)

PluginJson(plugin) ==
  JObj(<<[k |-> <<"name">>, v |-> JStr(plugin.name)],
         [k |-> <<"type">>, v |-> JStr(plugin.type)],
         [k |-> <<"comment">>, v |-> OptStr(plugin.comment)],
         [k |-> <<"settings">>,
          v |-> JObj([i \in 1..Len(plugin.settings) |->
                        [k |-> plugin.settings[i].key, v |-> JStr(plugin.settings[i].value)]])],
         [k |-> <<"identifiers">>,
          v |-> IF IsSome(plugin.identifiers) THEN IdentifiersJson(Get(plugin.identifiers))
                ELSE JNull],
         [k |-> <<"parameters">>,
          v |-> IF IsSome(plugin.parameters)
                THEN JArr([i \in 1..Len(Get(plugin.parameters)) |->
                             ParameterJson(Get(plugin.parameters)[i])])
                ELSE JNull]>>
       \o OptField(<<"bypassed">>, plugin.bypassed,
                   IF IsSome(plugin.bypassed) THEN JBool(Get(plugin.bypassed)) ELSE JNull)
       \o OptField(<<"slotIndex">>, plugin.slotIndex,
                   IF IsSome(plugin.slotIndex) THEN JNum(Get(plugin.slotIndex)) ELSE JNull))

SongJson(song) ==
  JObj(OptField(<<"title">>, song.title, OptStr(song.title))
       \o OptField(<<"artist">>, song.artist, OptStr(song.artist))
       \o <<[k |-> <<"album">>, v |-> JNull],
            [k |-> <<"timecode">>, v |-> OptStr(song.timecode)]>>)

\* A chain.json that lists the plugins in slot order
ChainJsonSlotOrder(c) ==
  JObj(<<[k |-> <<"daw">>, v |-> JStr(c.daw)],
         [k |-> <<"summary">>, v |-> OptStr(c.summary)],
         [k |-> <<"clipWindow">>, v |-> OptStr(c.clipWindow)],
         [k |-> <<"song">>, v |-> IF IsSome(c.song) THEN SongJson(Get(c.song)) ELSE JNull],
         [k |-> <<"plugins">>,
          v |-> JArr([i \in 1..Len(c.plugins) |-> PluginJson(sortChainPlugins(c)[i])])]>>)

ChainJson(c) ==
  JObj(<<[k |-> <<"daw">>, v |-> JStr(c.daw)],
         [k |-> <<"summary">>, v |-> OptStr(c.summary)],
         [k |-> <<"clipWindow">>, v |-> OptStr(c.clipWindow)],
         [k |-> <<"song">>, v |-> IF IsSome(c.song) THEN SongJson(Get(c.song)) ELSE JNull],
         [k |-> <<"plugins">>,
          v |-> JArr([i \in 1..Len(c.plugins) |-> PluginJson(c.plugins[i])])]>>)

(***************************************************************************)
(* Generic fallback archive (exporters/stubZip).                           *)
(***************************************************************************)
StubInstructions(c) ==
  Join(FilterBoolean(
    << Some(<<"ToneTerminal Export Stub">>),
       Some(<<"=======================">>),
       Some(<<>>),
       Some(<<"DAW: ">> \o c.daw),
       IF Truthy(c.clipWindow)
         THEN Some(<<"Clip window analyzed: ">> \o Get(c.clipWindow)) ELSE None,
       IF IsSome(c.song)
         THEN Some(<<"Reference: ">>
                     \o Get(Coalesce(SongTitle(c), Some(<<"Unknown">>)))
                     \o <<" - ">>
                     \o Get(Coalesce(SongArtist(c), Some(<<"Unknown">>)))
                     \o (IF Truthy(Get(c.song).timecode)
                         THEN <<" (">> \o Get(Get(c.song).timecode) \o <<")">>
                         ELSE <<>>))
         ELSE None,
       Some(<<>>),
       Some(<<"This DAW does not yet have a native preset exporter.">>),
       Some(<<"Follow these steps to recreate the chain manually:">>),
       Some(<<>>),
       Some(<<"1. Insert the listed plugins in order.">>),
       Some(<<"2. Apply the suggested settings and notes.">>),
       Some(<<"3. Save the chain within your DAW for future use.">>),
       Some(<<>>),
       Some(<<"Plugin Chain:">>) >>), <<"\n">>)

StubChainLines(c) ==
  Join([i \in 1..Len(c.plugins) |->
          LET plugin == c.plugins[i]
              settings == Join([j \in 1..Len(plugin.settings) |->
                                  <<"      - ">> \o plugin.settings[j].key \o <<": ">>
                                    \o plugin.settings[j].value], <<"\n">>)
          IN Join(FilterBoolean(
               << Some(<<ToString(i), ". ">> \o plugin.name \o <<" (">> \o plugin.type \o <<")">>),
                  Some(IF settings # <<>> THEN <<"    Settings:", "\n">> \o settings
                       ELSE <<"    Settings: (use defaults)">>),
                  IF Truthy(plugin.comment)
                    THEN Some(<<"    Notes: ">> \o Get(plugin.comment)) ELSE None >>), <<"\n">>)],
       <<"\n", "\n">>)

StubClipboardText(c) ==
  Join([i \in 1..Len(c.plugins) |->
          LET plugin == c.plugins[i]
              settings == Join([j \in 1..Len(plugin.settings) |->
                                  plugin.settings[j].key \o <<": ">> \o plugin.settings[j].value],
                               <<" | ">>)
          IN <<ToString(i), ". ">> \o plugin.name \o <<" (">> \o plugin.type \o <<")">>
               \o (IF settings # <<>> THEN <<" -> ">> \o settings ELSE <<>>)
               \o (IF Truthy(plugin.comment) THEN <<" // ">> \o Get(plugin.comment) ELSE <<>>)],
       <<"\n">>)

StubSuffix == <<"_", "c", "h", "a", "i", "n", "_", "s", "t", "u", "b", ".", "z", "i", "p">>

\* A stub filename that prefers the song title to the DAW name
StubFilenameFromTitle(c) ==
  IF Truthy(SongTitle(c))
  THEN sanitizeFilename(Get(SongTitle(c)), DefaultFilenameFallback) \o StubSuffix
  ELSE toLowerCase(ReplaceRunsNotIn(c.daw, UpperChars \cup LowerChars \cup DigitChars, <<"_">>))
         \o StubSuffix

\* `${safeDaw || "tone"}_chain_stub.zip`
StubFilename(c) ==
  LET safeDaw == toLowerCase(ReplaceRunsNotIn(c.daw, UpperChars \cup LowerChars \cup DigitChars, <<"_">>))
  IN (IF safeDaw # <<>> THEN safeDaw ELSE <<"t", "o", "n", "e">>) \o StubSuffix

StubZipSerialize(c) ==
  LET readmeText == StubInstructions(c) \o <<"\n", "\n">> \o StubChainLines(c) \o <<"\n">>
  IN [filename |-> StubFilename(c),
      mime |-> "application/zip",
      data |-> [container |-> "zip",
                files |-> <<[path |-> "README.txt", body |-> readmeText],
                            [path |-> "chain.json", body |-> JsonStringify(ChainJson(c), 0)],
                            [path |-> "clipboard.txt", body |-> StubClipboardText(c)]>>],
      serializerId |-> "stub-zip",
      label |-> "Stub ZIP Export",
      isNative |-> FALSE]


(***************************************************************************)
(* Serializer registry (exporters/index).                                  *)
(***************************************************************************)
\* The reaperRfx and logicPatch modules are registered in SERIALIZERS but
\* their sources are not part of the tree: each is taken to accept the DAW id
\* that data/nativeExporters records for its serializer id.
ReaperRfxHandles == { <<"r", "e", "a", "p", "e", "r">> }

LogicPatchHandles == { <<"l", "o", "g", "i", "c", "_", "p", "r", "o">> }

\* The registry, in registration order, with the ids canHandle accepts.
SERIALIZERS ==
  << [id |-> "reaper-rfx", handles |-> ReaperRfxHandles],
     [id |-> "fl-studio-fst",
      handles |-> { <<"f", "l", "_", "s", "t", "u", "d", "i", "o">>,
                    <<"f", "l", "s", "t", "u", "d", "i", "o">> }],
     [id |-> "ableton-adg",
      handles |-> { <<"a", "b", "l", "e", "t", "o", "n", "_", "l", "i", "v", "e">>,
                    <<"a", "b", "l", "e", "t", "o", "n">> }],
     [id |-> "logic-patch", handles |-> LogicPatchHandles],
     [id |-> "pro-tools-xml",
      handles |-> { <<"p", "r", "o", "_", "t", "o", "o", "l", "s">>,
                    <<"p", "r", "o", "t", "o", "o", "l", "s">> }],
     [id |-> "studio-one-preset",
      handles |-> { <<"s", "t", "u", "d", "i", "o", "_", "o", "n", "e">>,
                    <<"s", "t", "u", "d", "i", "o", "o", "n", "e">> }] >>

canHandle(serializer, dawId) == dawId \in serializer.handles

\* The body written by a serializer whose source is not in the tree
UnmodelledData == [container |-> "unmodelled", files |-> <<>>]

ReaperRfxSerialize(c) ==
  [filename |-> sanitizeFilename(SafeBase(c, <<"_", "c", "h", "a", "i", "n">>), DefaultFilenameFallback)
                  \o <<".", "r", "f", "x", "c", "h", "a", "i", "n">>,
   mime |-> "application/octet-stream",
   data |-> UnmodelledData,
   serializerId |-> "reaper-rfx",
   label |-> "Reaper RFX Chain",
   isNative |-> TRUE]

LogicPatchSerialize(c) ==
  [filename |-> sanitizeFilename(SafeBase(c, <<"_", "p", "a", "t", "c", "h">>), DefaultFilenameFallback)
                  \o <<".", "p", "a", "t", "c", "h">>,
   mime |-> "application/zip",
   data |-> UnmodelledData,
   serializerId |-> "logic-patch",
   label |-> "Logic Channel Strip",
   isNative |-> TRUE]

\* serializer.serialize(chain) for the serializer object with the given id
Serialize(id, c) ==
  CASE id = "reaper-rfx" -> ReaperRfxSerialize(c)
    [] id = "fl-studio-fst" -> FlStudioFstSerialize(c)
    [] id = "ableton-adg" -> AbletonAdgSerialize(c)
    [] id = "logic-patch" -> LogicPatchSerialize(c)
    [] id = "pro-tools-xml" -> ProToolsPresetSerialize(c)
    [] id = "studio-one-preset" -> StudioOnePresetSerialize(c)
    [] id = "stub-zip" -> StubZipSerialize(c)

\* SERIALIZERS.find((item) => item.canHandle(dawId)): the index of the first
\* match, 0 when there is none.
FindSerializer(dawId) ==
  LET hits == {i \in 1..Len(SERIALIZERS) : canHandle(SERIALIZERS[i], dawId)}
  IN IF hits = {} THEN 0 ELSE CHOOSE i \in hits : \A j \in hits : i <= j

\* serializePreset asking canHandle about the raw chain.daw, not the resolved id
serializePresetRawDaw(c) ==
  LET dawId == ResolveDawId(c)
      found == FindSerializer(c.daw)
      withId == [c EXCEPT !.dawId = Some(dawId)]
  IN IF found # 0 THEN Serialize(SERIALIZERS[found].id, withId)
     ELSE StubZipSerialize(withId)

\* chain.plugins after sortChainPlugins, had sort() been called on chain.plugins
PluginsSortedInPlace(c) == sortChainPlugins(c)

\* chain.plugins after sortChainPlugins(chain): sort() reorders the array that
\* map() returned, and chain.plugins keeps its order.
PluginsAfterSort(c) == c.plugins

\* The object passed to serialize(), after the call.  Every serializer but the
\* fallback starts with sortChainPlugins(chain); nothing else writes to it.
ChainAfterSerialize(id, c) ==
  IF id = "stub-zip" THEN c ELSE [c EXCEPT !.plugins = PluginsAfterSort(c)]

\* SERIALIZERS.find(...) ?? StubZipSerializer, as the id of the serializer object
SelectedSerializer(c) ==
  LET found == FindSerializer(ResolveDawId(c))
  IN IF found # 0 THEN SERIALIZERS[found].id ELSE "stub-zip"

\* { ...chain, dawId }: the object serialize() is called with
HandedChain(c) == [c EXCEPT !.dawId = Some(ResolveDawId(c))]

\* The caller's chain after serializePreset: dawId is set on the spread copy,
\* which shares the plugins array with the caller's object.
ChainAfterSerializePreset(c) ==
  [c EXCEPT !.plugins = ChainAfterSerialize(SelectedSerializer(c), HandedChain(c)).plugins]

serializePreset(c) ==
  LET dawId == ResolveDawId(c)
      found == FindSerializer(dawId)
      withId == [c EXCEPT !.dawId = Some(dawId)]
  IN IF found # 0 THEN Serialize(SERIALIZERS[found].id, withId)
     ELSE StubZipSerialize(withId)


(***************************************************************************)
(* Labels of DAW ids (lib/daws) and exporter coverage (nativeSupport).     *)
(***************************************************************************)
UpperOf == [c \in LowerChars |-> CHOOSE u \in UpperChars : LowerOf[u] = c]

\* s.split(sep) for a one-character separator
RECURSIVE Split(_, _)
Split(s, sep) ==
  LET cuts == {i \in 1..Len(s) : s[i] = sep}
  IN IF cuts = {} THEN <<s>>
     ELSE LET cut == CHOOSE i \in cuts : \A j \in cuts : i <= j
          IN <<SubSeq(s, 1, cut - 1)>> \o Split(SubSeq(s, cut + 1, Len(s)), sep)

\* segment[0].toUpperCase() + segment.slice(1), or the empty segment itself
Capitalize(segment) ==
  IF segment = <<>> THEN segment
  ELSE <<IF segment[1] \in LowerChars THEN UpperOf[segment[1]] ELSE segment[1]>>
         \o Tail(segment)

\* Keys every object literal answers the `in` operator for, besides its own
InheritedKeys ==
  ObjectPrototypeKeys \cup {<<"t", "o", "S", "t", "r", "i", "n", "g">>}

\* dawIdToLabel(id); None is the undefined that `.label` of an inherited
\* member evaluates to.
dawIdToLabel(id) ==
  LET own == {i \in 1..Len(DAWS) : DAWS[i].id = id}
  IN IF own # {} THEN Some(DAWS[CHOOSE i \in own : TRUE].label)
     ELSE IF id \in InheritedKeys THEN None
     ELSE LET segments == Split(id, "_")
          IN Some(Join([i \in 1..Len(segments) |-> Capitalize(segments[i])], <<" ">>))

\* key in NATIVE_EXPORTERS, for a string key
InNativeExporters(key) ==
  \/ \E i \in 1..Len(NATIVE_EXPORTER_INFO) : NATIVE_EXPORTER_INFO[i].id = key
  \/ key \in InheritedKeys

resolveNativeExporterKey(daw) ==
  IF trim(daw) = <<>> THEN None
  ELSE LET direct == UnderscoreWhitespace(toLowerCase(trim(daw)))
           mapped == labelToDawId(Some(daw))
       IN IF InNativeExporters(direct) THEN Some(direct)
          ELSE IF IsSome(mapped) /\ InNativeExporters(Get(mapped)) THEN mapped
          ELSE None

\* The fields read from an inherited member of NATIVE_EXPORTERS are undefined.
getExporterCoverage(daw) ==
  LET normalized == resolveNativeExporterKey(daw)
      own == {i \in 1..Len(NATIVE_EXPORTER_INFO) :
                IsSome(normalized) /\ NATIVE_EXPORTER_INFO[i].id = Get(normalized)}
      dawId == labelToDawId(Some(daw))
  IN IF IsSome(normalized) /\ own # {}
     THEN LET metadata == NATIVE_EXPORTER_INFO[CHOOSE i \in own : TRUE]
          IN [status |-> "native", nativeFormat |-> Some(metadata.formatLabel),
              serializerId |-> Some(metadata.serializerId),
              dawId |-> Some(metadata.id), label |-> Some(metadata.label)]
     ELSE IF IsSome(normalized)
     THEN [status |-> "native", nativeFormat |-> None, serializerId |-> None,
           dawId |-> None, label |-> None]
     ELSE [status |-> "manual", nativeFormat |-> None, serializerId |-> None,
           dawId |-> Some(IF IsSome(dawId) THEN Get(dawId)
                          ELSE UnderscoreWhitespace(toLowerCase(daw))),
           label |-> IF IsSome(dawId) THEN dawIdToLabel(Get(dawId)) ELSE Some(daw)]

(***************************************************************************)
(* Inputs.                                                                 *)
(***************************************************************************)
SanitizeAlphabet == {"a", "B", ".", "_", "/", " ", "\n"}

EscapeAlphabet == {"a", "=", "\n", "\r"}

\* Characters of the xmlEscape arguments: the five special characters, and the
\* letters that make an argument look like an entity already.
XmlAlphabet == {"&", "<", ">", "\"", "'", "l", "t", ";"}

EmptyChain ==
  [daw |-> <<>>, dawId |-> None, summary |-> None, plugins |-> <<>>,
   song |-> None, clipWindow |-> None]

NoPreset ==
  [filename |-> <<>>, mime |-> "", data |-> [container |-> "none", files |-> <<>>],
   serializerId |-> "", label |-> "", isNative |-> FALSE]

MinimalPlugin(name) ==
  [name |-> name, type |-> <<"F", "x">>, settings |-> <<>>, comment |-> None,
   identifiers |-> None, parameters |-> None, bypassed |-> None, slotIndex |-> None]

SlotInputs == {None, Some(0), Some(1), Some(5)}

SortPlugins ==
  {[MinimalPlugin(n) EXCEPT !.slotIndex = s] : n \in {<<"A">>, <<"B">>}, s \in SlotInputs}

\* Plugin bodies: neither settings nor parameters; settings only (with an
\* empty parameters list); parameters only; both.
PluginBodies ==
  { MinimalPlugin(<<"E", "Q">>),
    [MinimalPlugin(<<"C", "m", "p">>) EXCEPT
       !.settings = <<[key |-> <<"G", "=">>, value |-> <<"+", "3">>],
                      [key |-> <<"F">>, value |-> <<"5", "\r", "k">>]>>,
       !.comment = Some(<<"a", "\n", "=", "b">>),
       !.identifiers = Some([NoIdentifiers EXCEPT !.generic = Some(<<"g", "c">>)]),
       !.parameters = Some(<<>>),
       !.bypassed = Some(TRUE)],
    [MinimalPlugin(<<"R", "v", "b">>) EXCEPT
       !.parameters = Some(<<[id |-> <<"m", "i", "x">>, label |-> None, value |-> <<"5">>],
                             [id |-> <<"d">>, label |-> Some(<<"D", "r", "y">>),
                              value |-> <<"1", "=", "2">>]>>),
       !.identifiers = Some([NoIdentifiers EXCEPT !.flStudio = Some(<<"f", "r">>),
                                                  !.vst3 = Some(<<"v", "r">>)]),
       !.bypassed = Some(FALSE)],
    [MinimalPlugin(<<"D", "l", "y">>) EXCEPT
       !.settings = <<[key |-> <<"T">>, value |-> <<"9">>]>>,
       !.parameters = Some(<<[id |-> <<"t">>, label |-> Some(<<"T", "m">>), value |-> <<"7">>]>>),
       !.comment = Some(<<"x", "\r", "y">>)] }

SerializePlugins ==
  {[b EXCEPT !.slotIndex = s] : b \in PluginBodies, s \in {None, Some(1), Some(5)}}

SeqsUpTo(set, n) == UNION {[1..k -> set] : k \in 0..n}

MetaNone == [summary |-> None, song |-> None, clipWindow |-> None]

MetaFull ==
  [summary |-> Some(<<"S", "u", "m">>),
   song |-> Some([title |-> Some(<<"M", "y", " ", "S", "o", "n", "g">>),
                  artist |-> Some(<<"M", "e">>), timecode |-> Some(<<"0", ":", "1">>)]),
   clipWindow |-> Some(<<"0", "-", "9">>)]

MetaUntitled ==
  [summary |-> Some(<<".", ".">>),
   song |-> Some([title |-> None, artist |-> None, timecode |-> None]),
   clipWindow |-> None]

\* A song whose title is the empty string, and a summary that is the empty string
MetaEmptyTitle ==
  [summary |-> Some(<<"S", "u", "m">>),
   song |-> Some([title |-> Some(<<>>), artist |-> None, timecode |-> None]),
   clipWindow |-> None]

MetaEmptySummary == [summary |-> Some(<<>>), song |-> None, clipWindow |-> None]

NamingMetas == {MetaNone, MetaFull, MetaUntitled, MetaEmptyTitle, MetaEmptySummary}

NamingDaws == {<<"M", "y", " ", "D", "A", "W">>, <<>>, <<"A", "/", "B", " ", " ", "c", "9">>}

MkChain(daw, dawId, meta, plugins) ==
  [daw |-> daw, dawId |-> dawId, summary |-> meta.summary, plugins |-> plugins,
   song |-> meta.song, clipWindow |-> meta.clipWindow]

SortChains ==
  {MkChain(<<"D", "A", "W">>, None, MetaNone, ps) : ps \in SeqsUpTo(SortPlugins, MaxSortLen)}

\* Serializer objects whose serialize() source is in the tree.
DirectTargets ==
  {"fl-studio-fst", "ableton-adg", "pro-tools-xml", "studio-one-preset", "stub-zip"}

NativeTargets == DirectTargets \ {"stub-zip"}

IdentifierSlots == {"flStudio", "ableton", "proTools", "studioOne", "vst3", "aax", "generic"}

\* The identifier stored in a slot: one value per slot, so that the slot a
\* written identifier came from can be told.
SlotValue(slot) ==
  CASE slot = "flStudio" -> <<"i", "f">>
    [] slot = "ableton" -> <<"i", "a">>
    [] slot = "proTools" -> <<"i", "p">>
    [] slot = "studioOne" -> <<"i", "s">>
    [] slot = "vst3" -> <<"i", "v">>
    [] slot = "aax" -> <<"i", "x">>
    [] slot = "generic" -> <<"i", "g">>

\* Every subset of present identifier slots, and no identifier map at all
IdentifierMaps ==
  {None} \cup
  {Some([slot \in IdentifierSlots |-> IF slot \in present THEN Some(SlotValue(slot)) ELSE None]) :
     present \in SUBSET IdentifierSlots}

IdentifierChains ==
  {MkChain(<<"M", "y", " ", "D", "A", "W">>, None, MetaNone,
           <<[MinimalPlugin(<<"N", "m">>) EXCEPT !.identifiers = ids]>>) :
     ids \in IdentifierMaps}

\* Chains without plugins that differ in what a filename can be derived from
NamingChains ==
  {MkChain(daw, None, meta, <<>>) : daw \in NamingDaws, meta \in NamingMetas}

\* Plugin names: the letters Q and Z, which no template fragment contains,
\* around each character a format escapes or turns into another
NameInputs ==
  { <<"Q", "Z">>, <<"Q", " ", "Z">>, <<"Q", "&", "Z">>, <<"Q", "<", "Z">>,
    <<"Q", ">", "Z">>, <<"Q", "\"", "Z">>, <<"Q", "'", "Z">>, <<"Q", "=", "Z">>,
    <<"Q", "\n", "Z">>, <<"Q", "\r", "\n", "Z">>, <<"Q", "\\", "Z">> }

\* One plugin that has only a name, a type and empty settings
NameChains ==
  {MkChain(<<"M", "y", " ", "D", "A", "W">>, None, MetaNone, <<MinimalPlugin(n)>>) :
     n \in NameInputs}

\* A plugin with settings and no parameters property, and the plugin of
\* PluginBodies with settings and an empty parameters list
SettingsOnly ==
  [MinimalPlugin(<<"G", "t">>) EXCEPT
     !.settings = <<[key |-> <<"T", "&">>, value |-> <<"<", "1">>],
                    [key |-> <<"R">>, value |-> <<"2", "=">>]>>]

SettingsEmptyParameters == CHOOSE b \in PluginBodies : b.name = <<"C", "m", "p">>

\* Chains whose plugins all have settings and no parameters, in and against
\* slot order
SettingsChains ==
  {MkChain(<<"M", "y", " ", "D", "A", "W">>, None, MetaNone, ps) :
     ps \in { <<SettingsOnly>>,
              <<SettingsOnly, SettingsEmptyParameters>>,
              <<[SettingsEmptyParameters EXCEPT !.slotIndex = Some(5)],
                [SettingsOnly EXCEPT !.slotIndex = Some(1)]>> }}

DirectChains ==
  {MkChain(<<"M", "y", " ", "D", "A", "W">>, None, meta, ps) :
     meta \in {MetaNone, MetaFull}, ps \in SeqsUpTo(SerializePlugins, MaxPlugins)}
    \cup NamingChains \cup IdentifierChains \cup NameChains \cup SettingsChains

DawInputs ==
  { <<"F", "L", " ", "S", "t", "u", "d", "i", "o">>,
    <<" ", "f", "l", " ", "s", "t", "u", "d", "i", "o", " ">>,
    <<"f", "l", "s", "t", "u", "d", "i", "o">>,
    <<"A", "b", "l", "e", "t", "o", "n", " ", "L", "i", "v", "e">>,
    <<"a", "b", "l", "e", "t", "o", "n">>,
    <<"P", "r", "o", " ", "T", "o", "o", "l", "s">>,
    <<"S", "t", "u", "d", "i", "o", " ", " ", "O", "n", "e">>,
    <<"R", "e", "a", "p", "e", "r">>,
    <<"L", "o", "g", "i", "c", " ", "P", "r", "o">>,
    <<"B", "i", "t", "w", "i", "g">>,
    <<"H", "a", "r", "r", "i", "s", "o", "n", " ", "M", "i", "x", "b", "u", "s">>,
    <<"U", "n", "k", "n", "o", "w", "n", " ", "D", "A", "W">>,
    <<"c", "o", "n", "s", "t", "r", "u", "c", "t", "o", "r">> }

DawIdInputs ==
  { None,
    Some(<<"f", "l", "_", "s", "t", "u", "d", "i", "o">>),
    Some(<<"p", "r", "o", "_", "t", "o", "o", "l", "s">>),
    Some(<<"u", "n", "k", "n", "o", "w", "n", "_", "d", "a", "w">>),
    Some(<<>>) }

\* Two plugins listed against their slot order
OutOfOrderPair ==
  <<[MinimalPlugin(<<"E", "Q">>) EXCEPT !.slotIndex = Some(5)],
    [MinimalPlugin(<<"N", "m">>) EXCEPT !.slotIndex = Some(1)]>>

\* DAW strings asked about: those of the dispatcher, an id in place of a
\* label, and blank strings
CoverageInputs ==
  DawInputs \cup { <<"f", "l", "_", "s", "t", "u", "d", "i", "o">>,
                   <<"p", "r", "o", "_", "t", "o", "o", "l", "s", " ">>,
                   <<" ">>, <<>> }

\* Labels looked up: every registered label, as registered and lowercased,
\* the dispatcher's DAW strings, near misses, and no label at all
LabelInputs ==
  {None}
    \cup {Some(DAWS[i].label) : i \in 1..Len(DAWS)}
    \cup {Some(toLowerCase(DAWS[i].label)) : i \in 1..Len(DAWS)}
    \cup {Some(d) : d \in CoverageInputs}
    \cup { Some(<<"F", "L">>),
           Some(<<"F", "L", " ", "S", "t", "u", "d", "i", "o", " ", "2">>),
           Some(<<"_", "_", "p", "r", "o", "t", "o", "_", "_">>) }

\* Ids asked for a label: every registered id, and unregistered ones
IdInputs ==
  {DAWS[i].id : i \in 1..Len(DAWS)}
    \cup { <<"m", "y", "_", "d", "a", "w">>, <<"a", "_", "_", "b", "_">>, <<"x", "9">>, <<>>,
           <<"F", "L", "_", "s", "t", "u", "d", "i", "o">>,
           <<"c", "o", "n", "s", "t", "r", "u", "c", "t", "o", "r">>,
           <<"t", "o", "S", "t", "r", "i", "n", "g">> }

DispatchChains ==
  {MkChain(daw, dawId, meta, ps) :
     daw \in DawInputs, dawId \in DawIdInputs, meta \in {MetaNone, MetaFull, MetaUntitled},
     ps \in {<<>>, OutOfOrderPair} \cup {<<b>> : b \in PluginBodies}}

(***************************************************************************)
(* How a serialize() call ends.                                            *)
(*                                                                         *)
(* A property read of an optional object is a pair: `reached` is the       *)
(* condition under which the code evaluates the read (its ?., && or ?:     *)
(* guard), `present` whether the object is there.  A reached read of an    *)
(* absent object is a TypeError.                                           *)
(***************************************************************************)
IdentifierReads(c) ==
  {[reached |-> IsSome(c.plugins[i].identifiers),
    present |-> IsSome(c.plugins[i].identifiers)] : i \in 1..Len(c.plugins)}

\* chain.song?.title in the safeBase expression of every serializer
SafeBaseReads(c) == {[reached |-> IsSome(c.song), present |-> IsSome(c.song)]}

\* buildFst reading chain.song.title without the test in front of it
FlStudioFstReadsUnguarded(c) ==
  {[reached |-> TRUE, present |-> IsSome(c.song)]}

\* formatSlot: plugin.identifiers?.x, plugin.parameters && plugin.parameters.length;
\* buildFst: chain.song?.title ? chain.song.title : null
FlStudioFstReads(c) ==
  IdentifierReads(c) \cup SafeBaseReads(c)
    \cup {[reached |-> IsSome(c.plugins[i].parameters),
           present |-> IsSome(c.plugins[i].parameters)] : i \in 1..Len(c.plugins)}
    \cup {[reached |-> Truthy(SongTitle(c)), present |-> IsSome(c.song)]}

\* buildPreset: chain.song ? `... chain.song.title ... chain.song.artist ...` : ""
ProToolsPresetReads(c) ==
  IdentifierReads(c) \cup SafeBaseReads(c)
    \cup {[reached |-> IsSome(c.song), present |-> IsSome(c.song)]}

\* buildPreset: chain.song?.title ? xmlEscape(chain.song.title) : "", and artist
StudioOnePresetReads(c) ==
  IdentifierReads(c) \cup SafeBaseReads(c)
    \cup {[reached |-> Truthy(SongTitle(c)), present |-> IsSome(c.song)],
          [reached |-> Truthy(SongArtist(c)), present |-> IsSome(c.song)]}

AbletonAdgReads(c) == IdentifierReads(c) \cup SafeBaseReads(c)

\* chain.song ? `Reference: ${chain.song.title ?? "Unknown"} ...` : null
StubZipReads(c) == {[reached |-> IsSome(c.song), present |-> IsSome(c.song)]}

\* The serializers outside the tree: no serializer raises on a missing field.
ReaperRfxReads(c) == IdentifierReads(c) \cup SafeBaseReads(c)

LogicPatchReads(c) == IdentifierReads(c) \cup SafeBaseReads(c)

OptionalReads(id, c) ==
  CASE id = "reaper-rfx" -> ReaperRfxReads(c)
    [] id = "fl-studio-fst" -> FlStudioFstReads(c)
    [] id = "ableton-adg" -> AbletonAdgReads(c)
    [] id = "logic-patch" -> LogicPatchReads(c)
    [] id = "pro-tools-xml" -> ProToolsPresetReads(c)
    [] id = "studio-one-preset" -> StudioOnePresetReads(c)
    [] id = "stub-zip" -> StubZipReads(c)

\* The Logic channel strip is a zip archive; the Reaper chain is plain text.
LogicPatchWriters == {"logic-patch"}

\* The serializers that run an archive or compression writer: gzipSync,
\* buildZipArchive and JSZip's generateAsync.
ArchiveWriters == {"ableton-adg", "studio-one-preset", "stub-zip"} \cup LogicPatchWriters

\* The way serializer.serialize(chain) ends when the writer it runs, if any,
\* fails or not
SerializeOutcome(id, c, fails) ==
  IF \E read \in OptionalReads(id, c) : read.reached /\ ~read.present THEN "TypeError"
  ELSE IF fails /\ id \in ArchiveWriters THEN "WriterError"
  ELSE "returned"

\* The outcome and the value of the promise serialize() returns
SerializeResult(id, c, fails) ==
  LET ended == SerializeOutcome(id, c, fails)
  IN [outcome |-> ended,
      preset |-> IF ended = "returned" THEN Serialize(id, c) ELSE NoPreset]

\* serializePreset catching the serializer's error and answering with the
\* fallback's archive
serializePresetResultCatching(c, fails) ==
  LET ended == SerializeOutcome(SelectedSerializer(c), HandedChain(c), fails)
  IN [outcome |-> "returned",
      preset |-> IF ended = "returned" THEN serializePreset(c)
                 ELSE StubZipSerialize(HandedChain(c))]

\* serializePreset returns the selected serializer's promise as it is.
serializePresetResult(c, fails) ==
  LET ended == SerializeOutcome(SelectedSerializer(c), HandedChain(c), fails)
  IN [outcome |-> ended,
      preset |-> IF ended = "returned" THEN serializePreset(c) ELSE NoPreset]

\* Whether the writer can fail in a call: only a call that runs one
WriterFailures(id) == IF id \in ArchiveWriters THEN BOOLEAN ELSE {FALSE}

(***************************************************************************)
(* The calls.  Every exported function is pure: a call starts from the idle *)
(* state, and its frame holds the argument and the returned value.         *)
(***************************************************************************)
NoCoverage ==
  [status |-> "", nativeFormat |-> None, serializerId |-> None, dawId |-> None,
   label |-> None]

(***************************************************************************)
(* Plans (lib/plans), profiles (lib/profile) and plan gates.               *)
(***************************************************************************)
\* PLANS, in the order of its keys
PLANS ==
  <<[id |-> <<"f", "r", "e", "e">>, generationsPerMonth |-> 3,
     canExportPreset |-> FALSE],
    [id |-> <<"s", "t", "a", "n", "d", "a", "r", "d", "_", "1", "5">>,
     generationsPerMonth |-> 30, canExportPreset |-> TRUE],
    [id |-> <<"p", "r", "o", "_", "2", "9">>, generationsPerMonth |-> 60,
     canExportPreset |-> TRUE]>>

\* Object.keys(PLANS)
PLAN_IDS == [i \in 1..Len(PLANS) |-> PLANS[i].id]

\* normalizePlanId(raw): the empty string stands for every falsy raw
normalizePlanId(raw) ==
  IF raw = <<>> THEN <<"f", "r", "e", "e">>
  ELSE LET lower == toLowerCase(raw)
       IN IF \E i \in 1..Len(PLAN_IDS) : PLAN_IDS[i] = lower THEN lower
          ELSE <<"f", "r", "e", "e">>

\* getPlan(planId)
getPlan(planId) ==
  LET normalized == normalizePlanId(planId)
  IN PLANS[CHOOSE i \in 1..Len(PLANS) : PLANS[i].id = normalized]

DEFAULT_TIER == <<"f", "r", "e", "e">>

DEFAULT_CREDITS == getPlan(DEFAULT_TIER).generationsPerMonth

PRO_PLAN_ID == <<"p", "r", "o", "_", "2", "9">>

\* Math.max and Math.min of two integers
MathMax(a, b) == IF a >= b THEN a ELSE b

MathMin(a, b) == IF a <= b THEN a ELSE b

\* clampCredits(planId, credits), credits a finite number
clampCredits(planId, credits) ==
  LET plan == getPlan(planId)
  IN MathMax(0, MathMin(plan.generationsPerMonth, credits))

\* normalizeDawIdentifier(value)
normalizeDawIdentifier(value) ==
  LET id == labelToDawId(Some(value))
  IN IF IsSome(id) THEN Get(id) ELSE UnderscoreWhitespace(toLowerCase(value))

\* assertFeature(plan, "canExportPreset"): the status of the PlanGateError it
\* throws, 0 when it returns
assertFeature(gatesBypassed, plan) ==
  IF gatesBypassed THEN 0
  ELSE IF plan.canExportPreset THEN 0
  ELSE 403

\* assertQuotaAvailable(context): the status of the PlanGateError it throws, 0
\* when it returns
assertQuotaAvailable(gatesBypassed, context) ==
  IF gatesBypassed THEN 0
  ELSE IF context.profile.credits > 0 THEN 0
  ELSE 402

\* The PlanContext resolvePlanContext builds of the profile getOrCreateProfile
\* returned
PlanContextOf(gatesBypassed, profile) ==
  IF gatesBypassed
  THEN LET plan == getPlan(PRO_PLAN_ID)
       IN [profile |-> [tier |-> plan.id,
                        credits |-> MathMax(profile.credits, plan.generationsPerMonth)],
           plan |-> plan]
  ELSE [profile |-> profile, plan |-> getPlan(profile.tier)]

\* The user ids of the explored runs: every operation on the profiles table
\* selects and writes by .eq("id", userId), the row of one user alone
Users == {"u1"}

\* The request slots: the handlers that may be suspended at once

Slots == 1..MaxRequests

\* A row of the profiles table (tier and credits columns); NoRow: no row
NoRow == [present |-> FALSE, tier |-> <<>>, credits |-> 0]

Row(tier, credits) == [present |-> TRUE, tier |-> tier, credits |-> credits]

\* The headers and status of a response; NoResponse: none yet
NoResponse == [status |-> 0, exporter |-> "", native |-> "", target |-> ""]

Status(code) == [NoResponse EXCEPT !.status = code]

NoInput ==
  [user |-> "", event |-> "", status |-> "", daw |-> <<>>, credits |-> 0]

NoRequest ==
  [kind |-> "none", input |-> NoInput, pc |-> "idle",
   profile |-> [tier |-> <<>>, credits |-> 0],
   tier |-> <<>>, credits |-> 0, response |-> NoResponse]

\* The requests in flight at once, and a serializePreset call not yet made
Callers == 1..MaxCallers

NoCall == [pc |-> "idle", chain |-> EmptyChain, started |-> 0, preset |-> NoPreset]

\* The frame between two calls.
Idle ==
  [op |-> "init", target |-> "", chain |-> EmptyChain, after |-> EmptyChain,
   handed |-> EmptyChain, writerFails |-> FALSE, outcome |-> "", preset |-> NoPreset,
   coverage |-> NoCoverage, sorted |-> <<>>, text |-> <<>>, result |-> <<>>]

Enter(frame) ==
  /\ op' = frame.op
  /\ target' = frame.target
  /\ chain' = frame.chain
  /\ after' = frame.after
  /\ handed' = frame.handed
  /\ writerFails' = frame.writerFails
  /\ outcome' = frame.outcome
  /\ preset' = frame.preset
  /\ coverage' = frame.coverage
  /\ sorted' = frame.sorted
  /\ text' = frame.text
  /\ result' = frame.result
  /\ UNCHANGED archiveVars
  /\ UNCHANGED accountVars

Init ==
  /\ op = Idle.op
  /\ target = Idle.target
  /\ chain = Idle.chain
  /\ after = Idle.after
  /\ handed = Idle.handed
  /\ writerFails = Idle.writerFails
  /\ outcome = Idle.outcome
  /\ preset = Idle.preset
  /\ coverage = Idle.coverage
  /\ sorted = Idle.sorted
  /\ text = Idle.text
  /\ result = Idle.result
  /\ now = 0
  /\ calls = [i \in Callers |-> NoCall]
  /\ archives = [i \in Callers |-> <<>>]
  /\ bypass = FALSE
  /\ profiles = [u \in Users |-> NoRow]
  /\ seeded = profiles
  /\ requests = [s \in Slots |-> NoRequest]

CallSanitizeFilename ==
  \E name \in StringsUpTo(SanitizeAlphabet, MaxNameLen) :
    /\ op = "init"
    /\ Enter([Idle EXCEPT !.op = "sanitizeFilename", !.text = name,
                          !.result = sanitizeFilename(name, DefaultFilenameFallback),
                          !.outcome = "returned"])

CallEscapeValue ==
  \E value \in StringsUpTo(EscapeAlphabet, MaxValueLen) :
    /\ op = "init"
    /\ Enter([Idle EXCEPT !.op = "escapeValue", !.text = value,
                          !.result = escapeValue(value), !.outcome = "returned"])

CallXmlEscape ==
  \E value \in StringsUpTo(XmlAlphabet, MaxXmlLen) :
    /\ op = "init"
    /\ Enter([Idle EXCEPT !.op = "xmlEscape", !.text = value,
                          !.result = xmlEscape(value), !.outcome = "returned"])

CallLabelToDawId ==
  \E label \in LabelInputs :
    /\ op = "init"
    /\ Enter([Idle EXCEPT !.op = "labelToDawId", !.text = label,
                          !.result = labelToDawId(label), !.outcome = "returned"])

CallDawIdToLabel ==
  \E id \in IdInputs :
    /\ op = "init"
    /\ Enter([Idle EXCEPT !.op = "dawIdToLabel", !.text = id,
                          !.result = dawIdToLabel(id), !.outcome = "returned"])

CallGetExporterCoverage ==
  \E daw \in CoverageInputs :
    /\ op = "init"
    /\ Enter([Idle EXCEPT !.op = "getExporterCoverage", !.text = daw,
                          !.coverage = getExporterCoverage(daw),
                          !.outcome = "returned"])

CallSortChainPlugins ==
  \E c \in SortChains :
    /\ op = "init"
    /\ Enter([Idle EXCEPT !.op = "sortChainPlugins", !.chain = c,
                          !.after = [c EXCEPT !.plugins = PluginsAfterSort(c)],
                          !.sorted = sortChainPlugins(c), !.outcome = "returned"])

CallSerialize ==
  \E id \in DirectTargets, c \in DirectChains :
    \E fails \in WriterFailures(id) :
      /\ op = "init"
      /\ Enter([Idle EXCEPT !.op = "serialize", !.target = id, !.chain = c,
                            !.after = ChainAfterSerialize(id, c),
                            !.handed = c, !.writerFails = fails,
                            !.preset = SerializeResult(id, c, fails).preset,
                            !.outcome = SerializeResult(id, c, fails).outcome])

CallSerializePreset ==
  \E c \in DispatchChains :
    \E fails \in WriterFailures(SelectedSerializer(c)) :
      /\ op = "init"
      /\ Enter([Idle EXCEPT !.op = "serializePreset", !.chain = c,
                            !.after = ChainAfterSerializePreset(c),
                            !.target = SelectedSerializer(c), !.handed = HandedChain(c),
                            !.writerFails = fails,
                            !.preset = serializePresetResult(c, fails).preset,
                            !.outcome = serializePresetResult(c, fails).outcome])

\* The caller takes the returned value; the next call starts from a fresh frame.
Return ==
  /\ op # "init"
  /\ Enter(Idle)

Next ==
  \/ CallSanitizeFilename
  \/ CallEscapeValue
  \/ CallXmlEscape
  \/ CallLabelToDawId
  \/ CallDawIdToLabel
  \/ CallGetExporterCoverage
  \/ CallSortChainPlugins
  \/ CallSerialize
  \/ CallSerializePreset
  \/ Return

Spec == Init /\ [][Next]_vars

(***************************************************************************)
(* Concurrent serializePreset calls.  A call runs without interruption up  *)
(* to its first await: it selects the serializer, builds the text and, for *)
(* an archive, creates the JSZip object and adds the members.  The promise *)
(* resolves in a later turn of the event loop, when the writer has read    *)
(* the archive object; other calls and the clock move in between.          *)
(***************************************************************************)
\* One chain for every kind of output: line text (FL Studio), XML text (Pro
\* Tools), gzip (Ableton), a zip archive (Studio One) and the fallback's zip
\* archive, the last also with another plugin list.
ConcurrentChains ==
  { MkChain(<<"F", "L", " ", "S", "t", "u", "d", "i", "o">>, None, MetaNone, <<MinimalPlugin(<<"E", "Q">>)>>),
    MkChain(<<"P", "r", "o", " ", "T", "o", "o", "l", "s">>, None, MetaNone, <<MinimalPlugin(<<"E", "Q">>)>>),
    MkChain(<<"A", "b", "l", "e", "t", "o", "n", " ", "L", "i", "v", "e">>, None, MetaNone,
            <<MinimalPlugin(<<"E", "Q">>)>>),
    MkChain(<<"S", "t", "u", "d", "i", "o", " ", " ", "O", "n", "e">>, None, MetaNone,
            <<MinimalPlugin(<<"E", "Q">>)>>),
    MkChain(<<"B", "i", "t", "w", "i", "g">>, None, MetaNone, <<MinimalPlugin(<<"E", "Q">>)>>),
    MkChain(<<"B", "i", "t", "w", "i", "g">>, None, MetaFull, OutOfOrderPair) }

\* zip.file(path, data, options) without a date option: JSZip stamps the
\* entry with new Date(), and generateAsync writes that stamp into the local
\* header and the central directory of the entry.
zipFile(entry, date) == [path |-> entry.path, body |-> entry.body, date |-> date]

\* The archive object every call of the module would share
SharedArchive(i) == 1

\* const zip = new JSZip(): every call creates the archive object it fills.
ArchiveOf(i) == i

\* Whether the preset's data is written by JSZip
WritesZip(p) == p.data.container = "zip"

\* serializePreset(c), but for the writing of the archive
PresetOf == [c \in ConcurrentChains |-> serializePreset(c)]

\* The synchronous part of serializePreset(chain): up to the await of
\* generateAsync (zip), or to the return of the async serialize (text, gzip).
StartSerializePreset(i) ==
  \E c \in ConcurrentChains :
    /\ calls[i].pc = "idle"
    /\ calls' = [calls EXCEPT ![i] = [pc |-> "pending", chain |-> c, started |-> now,
                                      preset |-> PresetOf[c]]]
    /\ archives' =
         IF WritesZip(PresetOf[c])
         THEN [archives EXCEPT ![ArchiveOf(i)] =
                 [k \in 1..Len(PresetOf[c].data.files) |->
                    zipFile(PresetOf[c].data.files[k], now)]]
         ELSE archives
    /\ UNCHANGED <<now, frameVars, accountVars>>

\* The promise resolves: generateAsync has written the entries the archive
\* object holds; text and gzip data were complete at the start.
ResolveSerializePreset(i) ==
  /\ calls[i].pc = "pending"
  /\ calls' = [calls EXCEPT ![i].pc = "resolved",
                            ![i].preset.data =
                               IF WritesZip(calls[i].preset)
                               THEN [container |-> "zip", files |-> archives[ArchiveOf(i)]]
                               ELSE calls[i].preset.data]
  /\ UNCHANGED <<now, archives, frameVars, accountVars>>

\* The caller has taken the preset and may call again; the archive object of
\* the call is garbage.
TakePreset(i) ==
  /\ calls[i].pc = "resolved"
  /\ calls' = [calls EXCEPT ![i] = NoCall]
  /\ archives' = [archives EXCEPT ![ArchiveOf(i)] = <<>>]
  /\ UNCHANGED <<now, frameVars, accountVars>>

\* Time passes.
Tick ==
  /\ now < MaxClock
  /\ now' = now + 1
  /\ UNCHANGED <<calls, archives, frameVars, accountVars>>

ConcurrentNext ==
  \/ \E i \in Callers : StartSerializePreset(i)
  \/ \E i \in Callers : ResolveSerializePreset(i)
  \/ \E i \in Callers : TakePreset(i)
  \/ Tick

ConcurrentSpec == Init /\ [][ConcurrentNext]_vars

(***************************************************************************)
(* Requests against the profiles table.  An action is the code of a        *)
(* handler from one await of the table to the next: the table is read or   *)
(* written once, and the synchronous code after it runs to the next await  *)
(* or to the response.  The stripe_customer_id column, which no plan gate  *)
(* reads, is left out.                                                     *)
(***************************************************************************)
\* The bodies the export-preset route is posted: the DAW of the chain
ExportDaws ==
  { <<"F", "L", " ", "S", "t", "u", "d", "i", "o">>,
    <<"f", "l", "s", "t", "u", "d", "i", "o">>,
    <<"B", "i", "t", "w", "i", "g">>,
    <<"c", "o", "n", "s", "t", "r", "u", "c", "t", "o", "r">>,
    <<>> }

\* The export-preset route from the request body to the response, for a body
\* with one plugin: 400 without a DAW, 500 when serializePreset or
\* getExporterCoverage throws (dawId is an inherited member, not a string).
exportPreset(daw) ==
  IF daw = <<>> THEN Status(400)
  ELSE LET dawId == normalizeDawIdentifier(daw)
           made == serializePresetResult(
                     MkChain(daw, Some(dawId), MetaNone,
                             <<MinimalPlugin(<<"E", "Q">>)>>), FALSE)
           covered == getExporterCoverage(dawId)
       IN IF made.outcome # "returned" \/ dawId = InheritedValue THEN Status(500)
          ELSE [status |-> 200,
                exporter |-> made.preset.serializerId,
                native |-> IF made.preset.isNative THEN "true" ELSE "false",
                target |-> IF IsSome(covered.nativeFormat)
                           THEN Get(covered.nativeFormat) ELSE "manual"]

ExportResponseOf == [d \in ExportDaws |-> exportPreset(d)]

\* The events Stripe delivers: checkout, subscription created or updated with
\* its status, subscription deleted, any other; "" is a missing
\* metadata.supabase_user_id
WebhookInputs ==
  { [NoInput EXCEPT !.user = u, !.event = e] :
      u \in Users \cup {""},
      e \in {"checkout.session.completed", "customer.subscription.deleted"} }
  \cup
  { [NoInput EXCEPT !.user = u, !.event = "customer.subscription.updated",
                    !.status = st] :
      u \in Users, st \in {"active", "trialing", "canceled", "past_due"} }
  \cup
  { [NoInput EXCEPT !.event = "customer.subscription.updated", !.status = "active"],
    [NoInput EXCEPT !.event = "invoice.paid"] }

\* The credits updateProfileCredits is called with (no caller is in the
\* source): numbers within the limit of every plan
CreditInputs == {0, 2}

\* The request with its response made; its local variables are gone
Done(r, response) ==
  [NoRequest EXCEPT !.kind = r.kind, !.input = r.input, !.pc = "done",
                    !.response = response]

\* The request about to await updateProfileTier(userId, tier, credits)
AwaitTier(r, tier, credits) ==
  [r EXCEPT !.pc = "tier", !.tier = tier, !.credits = credits]

\* The Stripe webhook up to its first await of the profiles table.
PostStripeWebhook(s) ==
  \E i \in WebhookInputs :
    LET r == [NoRequest EXCEPT !.kind = "webhook", !.input = i]
    IN /\ requests[s].pc = "idle"
       /\ requests' =
            [requests EXCEPT ![s] =
               IF i.event \in {"checkout.session.completed",
                               "customer.subscription.updated"} /\ i.user # ""
               THEN [r EXCEPT !.pc = "select"]
               ELSE IF i.event = "customer.subscription.deleted" /\ i.user # ""
               THEN AwaitTier(r, <<"f", "r", "e", "e">>, DEFAULT_CREDITS)
               ELSE Done(r, Status(200))]
       /\ UNCHANGED <<bypass, profiles, seeded, frameVars, archiveVars>>

\* The export-preset route up to resolvePlanContext's getOrCreateProfile.
PostExportPreset(s) ==
  \E u \in Users, d \in ExportDaws :
    /\ requests[s].pc = "idle"
    /\ requests' = [requests EXCEPT ![s] =
                      [NoRequest EXCEPT !.kind = "export", !.pc = "select",
                                        !.input.user = u, !.input.daw = d]]
    /\ UNCHANGED <<bypass, profiles, seeded, frameVars, archiveVars>>

\* The analyze route up to resolvePlanContext's getOrCreateProfile.
PostAnalyze(s) ==
  \E u \in Users :
    /\ requests[s].pc = "idle"
    /\ requests' = [requests EXCEPT ![s] =
                      [NoRequest EXCEPT !.kind = "analyze", !.pc = "select",
                                        !.input.user = u]]
    /\ UNCHANGED <<bypass, profiles, seeded, frameVars, archiveVars>>

\* updateProfileCredits(userId, credits) is called.
CallUpdateProfileCredits(s) ==
  \E u \in Users, c \in CreditInputs :
    /\ requests[s].pc = "idle"
    /\ requests' = [requests EXCEPT ![s] =
                      [NoRequest EXCEPT !.kind = "credits", !.pc = "write",
                                        !.input.user = u, !.input.credits = c]]
    /\ UNCHANGED <<bypass, profiles, seeded, frameVars, archiveVars>>

\* decrementCredits(userId) is called.
CallDecrementCredits(s) ==
  \E u \in Users :
    /\ requests[s].pc = "idle"
    /\ requests' = [requests EXCEPT ![s] =
                      [NoRequest EXCEPT !.kind = "decrement", !.pc = "decRead",
                                        !.input.user = u]]
    /\ UNCHANGED <<bypass, profiles, seeded, frameVars, archiveVars>>

\* The handler after getOrCreateProfile has returned profile: the webhook's
\* switch to its updateProfileTier, the export route's gate and response, the
\* analyze route's quota gate.
AfterProfile(r, profile) ==
  LET context == PlanContextOf(bypass, profile)
      got == [r EXCEPT !.profile = profile]
  IN IF r.kind = "webhook"
     THEN IF \/ r.input.event = "checkout.session.completed"
             \/ r.input.status \in {"active", "trialing"}
          THEN AwaitTier(got, <<"p", "r", "o">>, 9999)
          ELSE IF r.input.status \in {"canceled", "unpaid"}
          THEN AwaitTier(got, <<"f", "r", "e", "e">>, DEFAULT_CREDITS)
          ELSE Done(got, Status(200))
     ELSE IF r.kind = "export"
     THEN IF assertFeature(bypass, context.plan) # 0
          THEN Done(got, Status(assertFeature(bypass, context.plan)))
          ELSE Done(got, ExportResponseOf[r.input.daw])
     ELSE IF assertQuotaAvailable(bypass, context) # 0
          THEN Done(got, Status(assertQuotaAvailable(bypass, context)))
          ELSE [got EXCEPT !.pc = "decRead"]

\* getOrCreateProfile: the select, and what follows when the row needs no sync.
SelectProfile(s) ==
  LET r == requests[s]
      data == profiles[r.input.user]
      normalizedTier == normalizePlanId(data.tier)
      credits == clampCredits(normalizedTier, data.credits)
      needsSync == normalizedTier # data.tier \/ credits # data.credits
      synced == [tier |-> normalizedTier, credits |-> credits]
  IN /\ r.pc = "select"
     /\ requests' =
          [requests EXCEPT ![s] =
             IF ~data.present THEN [r EXCEPT !.pc = "insert"]
             ELSE IF needsSync THEN [r EXCEPT !.pc = "sync", !.profile = synced]
             ELSE AfterProfile(r, synced)]
     /\ UNCHANGED <<bypass, profiles, seeded, frameVars, archiveVars>>

\* getOrCreateProfile: the update of a row that needed a sync, with the values
\* computed from the row as it was selected.
SyncProfile(s) ==
  LET r == requests[s]
      u == r.input.user
  IN /\ r.pc = "sync"
     /\ profiles' =
          IF profiles[u].present
          THEN [profiles EXCEPT ![u] = Row(r.profile.tier, r.profile.credits)]
          ELSE profiles
     /\ requests' = [requests EXCEPT ![s] = AfterProfile(r, r.profile)]
     /\ UNCHANGED <<bypass, seeded, frameVars, archiveVars>>

\* getOrCreateProfile: the insert of the default row; it fails when another
\* request has inserted the row since the select.
InsertProfile(s) ==
  LET r == requests[s]
      u == r.input.user
  IN /\ r.pc = "insert"
     /\ IF profiles[u].present
        THEN /\ requests' = [requests EXCEPT ![s] = Done(r, Status(500))]
             /\ UNCHANGED profiles
        ELSE /\ profiles' = [profiles EXCEPT ![u] = Row(DEFAULT_TIER, DEFAULT_CREDITS)]
             /\ requests' =
                  [requests EXCEPT ![s] =
                     AfterProfile(r, [tier |-> DEFAULT_TIER,
                                      credits |-> clampCredits(DEFAULT_TIER,
                                                               DEFAULT_CREDITS)])]
     /\ UNCHANGED <<bypass, seeded, frameVars, archiveVars>>

\* updateProfileTier(userId, tier, credits) with a number for credits: the row
\* it writes
updateProfileTier(tier, credits) == Row(normalizePlanId(tier), credits)

\* The webhook's updateProfileTier and its response.
UpdateTier(s) ==
  LET r == requests[s]
      u == r.input.user
  IN /\ r.pc = "tier"
     /\ IF profiles[u].present
        THEN /\ profiles' = [profiles EXCEPT ![u] = updateProfileTier(r.tier, r.credits)]
             /\ requests' = [requests EXCEPT ![s] = Done(r, Status(200))]
        ELSE /\ requests' = [requests EXCEPT ![s] = Done(r, Status(500))]
             /\ UNCHANGED profiles
     /\ UNCHANGED <<bypass, seeded, frameVars, archiveVars>>

\* decrementCredits: nextCredits of the row read
nextCredits(current) ==
  LET plan == getPlan(current.tier)
      currentCredits == clampCredits(plan.id, current.credits)
  IN MathMax(0, currentCredits - 1)

\* decrementCredits: the select and the computation of nextCredits; the throw
\* for a missing row ends the call (the analyze route logs it and goes on).
DecrementRead(s) ==
  LET r == requests[s]
      current == profiles[r.input.user]
  IN /\ r.pc = "decRead"
     /\ requests' =
          [requests EXCEPT ![s] =
             IF ~current.present
             THEN Done(r, Status(IF r.kind = "decrement" THEN 500 ELSE 200))
             ELSE [r EXCEPT !.pc = "decWrite", !.credits = nextCredits(current)]]
     /\ UNCHANGED <<bypass, profiles, seeded, frameVars, archiveVars>>

\* decrementCredits: the update with nextCredits.
DecrementWrite(s) ==
  LET r == requests[s]
      u == r.input.user
  IN /\ r.pc = "decWrite"
     /\ profiles' = [profiles EXCEPT ![u].credits = r.credits]
     /\ requests' = [requests EXCEPT ![s] = Done(r, Status(200))]
     /\ UNCHANGED <<bypass, seeded, frameVars, archiveVars>>

\* updateProfileCredits: the update with the credits given.
UpdateCredits(s) ==
  LET r == requests[s]
      u == r.input.user
  IN /\ r.pc = "write"
     /\ IF profiles[u].present
        THEN /\ profiles' = [profiles EXCEPT ![u].credits = r.input.credits]
             /\ requests' = [requests EXCEPT ![s] = Done(r, Status(200))]
        ELSE /\ requests' = [requests EXCEPT ![s] = Done(r, Status(500))]
             /\ UNCHANGED profiles
     /\ UNCHANGED <<bypass, seeded, frameVars, archiveVars>>

\* The response is sent (the call has returned); the slot takes the next request.
Respond(s) ==
  /\ requests[s].pc = "done"
  /\ requests' = [requests EXCEPT ![s] = NoRequest]
  /\ UNCHANGED <<bypass, profiles, seeded, frameVars, archiveVars>>

\* The rows the table may hold at the start: none, or a row of a plan with
\* credits within the plan's limit
SeedRows ==
  { NoRow,
    Row(<<"f", "r", "e", "e">>, 3),
    Row(<<"s", "t", "a", "n", "d", "a", "r", "d", "_", "1", "5">>, 2),
    Row(<<"p", "r", "o", "_", "2", "9">>, 1) }

AccountInit ==
  /\ op = Idle.op
  /\ target = Idle.target
  /\ chain = Idle.chain
  /\ after = Idle.after
  /\ handed = Idle.handed
  /\ writerFails = Idle.writerFails
  /\ outcome = Idle.outcome
  /\ preset = Idle.preset
  /\ coverage = Idle.coverage
  /\ sorted = Idle.sorted
  /\ text = Idle.text
  /\ result = Idle.result
  /\ now = 0
  /\ calls = [i \in Callers |-> NoCall]
  /\ archives = [i \in Callers |-> <<>>]
  /\ bypass \in BOOLEAN
  /\ profiles \in [Users -> SeedRows]
  /\ seeded = profiles
  /\ requests = [s \in Slots |-> NoRequest]

AccountNext ==
  \/ \E s \in Slots : PostStripeWebhook(s)
  \/ \E s \in Slots : PostExportPreset(s)
  \/ \E s \in Slots : PostAnalyze(s)
  \/ \E s \in Slots : CallUpdateProfileCredits(s)
  \/ \E s \in Slots : SelectProfile(s)
  \/ \E s \in Slots : SyncProfile(s)
  \/ \E s \in Slots : InsertProfile(s)
  \/ \E s \in Slots : UpdateTier(s)
  \/ \E s \in Slots : DecrementRead(s)
  \/ \E s \in Slots : DecrementWrite(s)
  \/ \E s \in Slots : UpdateCredits(s)
  \/ \E s \in Slots : Respond(s)

AccountSpec == AccountInit /\ [][AccountNext]_vars

\* decrementCredits calls only, each slot making one call.
DecrementNext ==
  \/ \E s \in Slots : CallDecrementCredits(s)
  \/ \E s \in Slots : DecrementRead(s)
  \/ \E s \in Slots : DecrementWrite(s)

DecrementSpec == AccountInit /\ [][DecrementNext]_vars

(***************************************************************************)
(* Reading serialized output back.                                         *)
(***************************************************************************)
Min(set) == CHOOSE x \in set : \A y \in set : x <= y

\* The tokens of s from position from up to the next closeTok (or the end)
Between(s, from, closeTok) ==
  LET ends == {j \in from..Len(s) : s[j] = closeTok}
  IN SubSeq(s, from, (IF ends = {} THEN Len(s) + 1 ELSE Min(ends)) - 1)

\* The text split at its newline tokens
RECURSIVE SplitLines(_)
SplitLines(s) ==
  LET first == Between(s, 1, "\n")
  IN IF Len(first) = Len(s) THEN <<s>>
     ELSE <<first>> \o SplitLines(SubSeq(s, Len(first) + 2, Len(s)))

RECURSIVE SortedSeqOf(_)
SortedSeqOf(set) ==
  IF set = {} THEN <<>> ELSE <<Min(set)>> \o SortedSeqOf(set \ {Min(set)})

PositionsOf(s, tok) == SortedSeqOf({i \in 1..Len(s) : s[i] = tok})

\* The member of the returned container that lists the plugins
Body(p) == p.data.files[1].body

StartsWithParam(line) == Len(line) >= 1 /\ line[1] = "Param"

\* The parameter entries a reader finds in the output of the serializer id,
\* in output order, as <<name, value>> in the format's escaped form.
EmittedParameters(id, body) ==
  CASE id = "fl-studio-fst" ->
         LET lines == SelectSeq(SplitLines(body), StartsWithParam)
         IN [i \in 1..Len(lines) |->
               LET name == Between(lines[i], 4, "=")
               IN <<name, SubSeq(lines[i], 4 + Len(name) + 1, Len(lines[i]))>>]
    [] id \in {"pro-tools-xml", "studio-one-preset"} ->
         LET at == PositionsOf(body, "<Parameter index=\"")
         IN [i \in 1..Len(at) |->
               LET name == Between(body, at[i] + 3, "\" value=\"")
               IN <<name, Between(body, at[i] + 3 + Len(name) + 1, "\"/>")>>]
    [] id = "ableton-adg" ->
         LET at == PositionsOf(body, "<Id Value=\"")
         IN [i \in 1..Len(at) |->
               LET name == Between(body, at[i] + 1, "\"/>")
               IN <<name, Between(body, at[i] + 1 + Len(name) + 4, "\"/>")>>]

\* The plugin display names a reader finds in a text, in output order
NamesAfter(body, openTok, skip, closeTok) ==
  LET at == PositionsOf(body, openTok)
  IN [i \in 1..Len(at) |-> Between(body, at[i] + 1 + skip, closeTok)]

EmittedNames(id, p) ==
  CASE id = "fl-studio-fst" -> NamesAfter(Body(p), "DisplayName", 1, "\n")
    [] id = "pro-tools-xml" -> NamesAfter(Body(p), "<PlugIn name=\"", 0, "\" identifier=\"")
    [] id = "studio-one-preset" -> NamesAfter(Body(p), "<Name>", 0, "</Name>")
    [] id = "ableton-adg" -> NamesAfter(Body(p), "<PresetName Value=\"", 0, "\"/>")
    [] id = "stub-zip" -> NamesAfter(p.data.files[1].body, ". ", 0, " (")

\* The numbering of clipboard.txt in the fallback archive
ClipboardNames(p) == NamesAfter(p.data.files[3].body, ". ", 0, " (")

HasParameters(plugin) == IsSome(plugin.parameters) /\ Len(Get(plugin.parameters)) > 0

HasSettings(plugin) == Len(plugin.settings) > 0

\* The <<name, value>> pairs of a plugin's parameters list, escaped by esc
ParameterPairs(plugin, esc(_)) ==
  [i \in 1..Len(Get(plugin.parameters)) |->
     LET param == Get(plugin.parameters)[i]
     IN <<esc(IF IsSome(param.label) THEN Get(param.label) ELSE param.id), esc(param.value)>>]

\* The order the claims ask for: position p of the input comes before
\* position q when its key is smaller, or equal with p < q.
KeyOf(plugins, i) ==
  IF plugins[i].slotIndex # None THEN plugins[i].slotIndex[1] ELSE i - 1

IsStableAscending(plugins, perm) ==
  \A a, b \in 1..Len(perm) :
    a < b => \/ KeyOf(plugins, perm[a]) < KeyOf(plugins, perm[b])
             \/ /\ KeyOf(plugins, perm[a]) = KeyOf(plugins, perm[b])
                /\ perm[a] < perm[b]

Permutations1(n) == {f \in [1..n -> 1..n] : \A a, b \in 1..n : a # b => f[a] # f[b]}

\* out is plugins rearranged in stable ascending key order
IsStableSortOf(out, plugins) ==
  /\ Len(out) = Len(plugins)
  /\ \E perm \in Permutations1(Len(plugins)) :
       /\ IsStableAscending(plugins, perm)
       /\ \A k \in 1..Len(plugins) : out[k] = plugins[perm[k]]

(***************************************************************************)
(* Properties.                                                             *)
(***************************************************************************)

\* C1: serializePreset returns the preset of the first registered native
\* serializer whose canHandle accepts the resolved DAW id (isNative = true,
\* serializerId = that serializer's id), and the stub-zip preset with
\* isNative = false when no native serializer accepts it.
C1_DispatchFirstMatch ==
  (op = "serializePreset" /\ outcome = "returned") =>
    LET dawId == IF chain.dawId # None THEN chain.dawId[1]
                 ELSE IF labelToDawId(<<chain.daw>>) # None THEN labelToDawId(<<chain.daw>>)[1]
                 ELSE UnderscoreWhitespace(toLowerCase(chain.daw))
        hits == {i \in 1..Len(SERIALIZERS) : dawId \in SERIALIZERS[i].handles}
    IN IF hits # {}
       THEN preset.isNative /\ preset.serializerId = SERIALIZERS[Min(hits)].id
       ELSE ~preset.isNative /\ preset.serializerId = "stub-zip"

C1_Witness ==
  /\ op = "serializePreset"
  /\ chain.dawId = None
  /\ chain.daw = <<"P", "r", "o", " ", "T", "o", "o", "l", "s">>
  /\ preset.isNative
  /\ preset.serializerId = "pro-tools-xml"

\* C2: for every native serializer, when every plugin of the chain has a
\* non-empty parameters list, the parameter entries in the output are exactly
\* the entries of those lists (label-or-id and value, in the format's
\* escaping), in sorted plugin order, and nothing derived from settings.
C2_ParametersOnly ==
  (/\ op = "serialize"
   /\ outcome = "returned"
   /\ target \in NativeTargets
   /\ chain.plugins # <<>>
   /\ \A i \in 1..Len(chain.plugins) : HasParameters(chain.plugins[i]))
  => LET ordered == sortChainPlugins(chain)
     IN EmittedParameters(target, Body(preset))
          = Join([i \in 1..Len(ordered) |->
                    IF target = "fl-studio-fst" THEN ParameterPairs(ordered[i], escapeValue)
                    ELSE ParameterPairs(ordered[i], xmlEscape)], <<>>)

\* C3: for every native serializer, when no plugin of the chain has
\* parameters or settings, the output carries exactly one (placeholder)
\* parameter entry per plugin.
C3_OnePlaceholderEach ==
  (/\ op = "serialize"
   /\ outcome = "returned"
   /\ target \in NativeTargets
   /\ chain.plugins # <<>>
   /\ \A i \in 1..Len(chain.plugins) :
        ~HasParameters(chain.plugins[i]) /\ ~HasSettings(chain.plugins[i]))
  => Len(EmittedParameters(target, Body(preset))) = Len(chain.plugins)

\* C4: sortChainPlugins returns a permutation of chain.plugins of the same
\* length, ascending by slotIndex-or-array-index, equal keys in their
\* original relative order.
C4_StableSort ==
  op = "sortChainPlugins" => IsStableSortOf(sorted, chain.plugins)

C4_Witness ==
  /\ op = "sortChainPlugins"
  /\ Len(sorted) = 3
  /\ sorted # chain.plugins
  /\ \E a, b \in 1..3 :
       /\ a < b
       /\ KeyOf(chain.plugins, a) = KeyOf(chain.plugins, b)
       /\ chain.plugins[a].name # chain.plugins[b].name

\* C5: in every output format, the fallback archive's README.txt and
\* clipboard.txt included, the plugins are listed in sortChainPlugins order.
C5_SortedInEveryFormat ==
  (op = "serialize" /\ outcome = "returned" /\ target \in DirectTargets)
  => LET ordered == sortChainPlugins(chain)
         names == [i \in 1..Len(ordered) |-> ordered[i].name]
     IN /\ EmittedNames(target, preset) = names
        /\ target = "stub-zip" => ClipboardNames(preset) = names

\* C6: in the FL Studio output of a chain with at least one plugin, every
\* [SlotN] header starts a line: it is the first token or follows a newline.
C6_SlotHeaderStartsLine ==
  (op = "serialize" /\ target = "fl-studio-fst" /\ chain.plugins # <<>>)
  => \A i \in 1..Len(Body(preset)) :
       Body(preset)[i] = "[Slot" => (i = 1 \/ Body(preset)[i - 1] = "\n")

\* C7: in the FL Studio output the number written after SlotCount= is the
\* number of plugins, there is one [SlotN] marker per plugin, numbered
\* 0 .. n-1 in sortChainPlugins order, and none for an empty plugin list.
C7_SlotCountMatchesBlocks ==
  (op = "serialize" /\ target = "fl-studio-fst")
  => LET body == Body(preset)
         n == Len(chain.plugins)
         ordered == sortChainPlugins(chain)
         countAt == PositionsOf(body, "SlotCount")
         slotAt == PositionsOf(body, "[Slot")
     IN /\ Len(countAt) = 1
        /\ body[countAt[1] + 1] = "="
        /\ body[countAt[1] + 2] = ToString(n)
        /\ Len(slotAt) = n
        /\ \A k \in 1..n : body[slotAt[k] + 1] = ToString(k - 1) /\ body[slotAt[k] + 2] = "]"
        /\ EmittedNames("fl-studio-fst", preset) = [k \in 1..n |-> escapeValue(ordered[k].name)]

C7_Witness ==
  /\ op = "serialize"
  /\ target = "fl-studio-fst"
  /\ Len(chain.plugins) = 2
  /\ sortChainPlugins(chain) # chain.plugins
  /\ chain.plugins[1].name # chain.plugins[2].name

\* C8: escapeValue(s) contains no carriage return, no line feed and no '='.
C8_EscapedStaysOnOneLine ==
  op = "escapeValue" =>
    ~Contains(result, "\r") /\ ~Contains(result, "\n") /\ ~Contains(result, "=")

\* C9: sanitizeFilename (default fallback) is idempotent, its result has no
\* '/' and is never empty.
C9_SanitizeIdempotent ==
  op = "sanitizeFilename" =>
    /\ sanitizeFilename(result, DefaultFilenameFallback) = result
    /\ ~Contains(result, "/")
    /\ result # <<>>

C9_Witness ==
  /\ op = "sanitizeFilename"
  /\ text = <<"/", "B", " ", "/">>
  /\ result = <<"b">>

\* C10: the result of sanitizeFilename has no '/', no '..' sequence and no
\* control character.
C10_NoTraversal ==
  op = "sanitizeFilename" =>
    /\ ~Contains(result, "/")
    /\ ~ContainsPair(result, ".", ".")
    /\ \A i \in 1..Len(result) : result[i] \notin ControlChars

(***************************************************************************)
(* C11  xmlEscape is a faithful escaping.                                  *)
(***************************************************************************)
XmlEntities ==
  { [text |-> <<"&", "a", "m", "p", ";">>, char |-> "&"],
    [text |-> <<"&", "l", "t", ";">>, char |-> "<"],
    [text |-> <<"&", "g", "t", ";">>, char |-> ">"],
    [text |-> <<"&", "q", "u", "o", "t", ";">>, char |-> "\""],
    [text |-> <<"&", "a", "p", "o", "s", ";">>, char |-> "'"] }

StartsWith(s, prefix) ==
  Len(s) >= Len(prefix) /\ SubSeq(s, 1, Len(prefix)) = prefix

\* One left-to-right pass that turns each of the five entities into its character
RECURSIVE xmlUnescape(_)
xmlUnescape(s) ==
  IF s = <<>> THEN <<>>
  ELSE IF \E e \in XmlEntities : StartsWith(s, e.text)
       THEN LET e == CHOOSE x \in XmlEntities : StartsWith(s, x.text)
            IN <<e.char>> \o xmlUnescape(SubSeq(s, Len(e.text) + 1, Len(s)))
       ELSE <<Head(s)>> \o xmlUnescape(Tail(s))

\* C11: for every string s, xmlEscape(s) contains none of the raw characters
\* < > " ' , and unescaping the five entities in it gives s back.
C11_XmlEscapeRoundTrip ==
  op = "xmlEscape" =>
    /\ \A c \in {"<", ">", "\"", "'"} : ~Contains(result, c)
    /\ xmlUnescape(result) = text

\* An argument that already reads as an entity is escaped once more, not kept.
C11_Witness ==
  /\ op = "xmlEscape"
  /\ text = <<"&", "l", "t", ";">>
  /\ result = <<"&", "a", "m", "p", ";", "l", "t", ";">>

(***************************************************************************)
(* C12  Filenames of the native serializers.                               *)
(***************************************************************************)
ExpectedBase(c, suffix) ==
  IF IsSome(c.song) /\ IsSome(Get(c.song).title) THEN Get(Get(c.song).title)
  ELSE IF IsSome(c.summary) THEN Get(c.summary)
  ELSE UnderscoreWhitespace(c.daw) \o suffix

CanonicalExtension(serializerId) ==
  LET info == CHOOSE i \in 1..Len(NATIVE_EXPORTER_INFO) :
                NATIVE_EXPORTER_INFO[i].serializerId = serializerId
  IN NATIVE_EXPORTER_INFO[info].fileExtension

PlaceholderSuffix(serializerId) ==
  CASE serializerId = "fl-studio-fst" -> <<"_", "c", "h", "a", "i", "n">>
    [] serializerId = "ableton-adg" -> <<"_", "r", "a", "c", "k">>
    [] OTHER -> <<"_", "p", "r", "e", "s", "e", "t">>

NativeCallReturned ==
  /\ op \in {"serialize", "serializePreset"}
  /\ outcome = "returned"
  /\ preset.serializerId \in NativeTargets

\* C12 as stated: the filename of every native serializer is
\* sanitizeFilename(base) plus the registered extension, where base is the song
\* title, else the summary, else "<daw>_chain" or "<daw>_preset".
C12_PlaceholderChainOrPreset ==
  NativeCallReturned =>
    \E suffix \in {<<"_", "c", "h", "a", "i", "n">>, <<"_", "p", "r", "e", "s", "e", "t">>} :
      preset.filename =
        sanitizeFilename(ExpectedBase(chain, suffix), DefaultFilenameFallback)
          \o CanonicalExtension(preset.serializerId)

\* C12, amended: the filename of every native serializer is
\* sanitizeFilename(base) plus the registered extension, where base is the song
\* title when it is not null, else the summary when it is not null, else the
\* DAW name with "_chain" (FL Studio), "_rack" (Ableton) or "_preset"
\* (Pro Tools, Studio One) appended.
C12_FilenameOfNativeSerializer ==
  NativeCallReturned =>
    preset.filename =
      sanitizeFilename(ExpectedBase(chain, PlaceholderSuffix(preset.serializerId)),
                       DefaultFilenameFallback)
        \o CanonicalExtension(preset.serializerId)

\* The Ableton serializer names a chain without title and summary after the DAW.
C12_Witness ==
  /\ op = "serialize"
  /\ target = "ableton-adg"
  /\ chain.song = None /\ chain.summary = None
  /\ preset.filename = <<"m", "y", "_", "d", "a", "w", "_", "r", "a", "c", "k", ".", "a", "d", "g">>

(***************************************************************************)
(* C13  Filename of the generic fallback.                                  *)
(***************************************************************************)
AlphaNumeric == UpperChars \cup LowerChars \cup DigitChars

\* s with every maximal run of characters outside AlphaNumeric turned into one
\* "_", and every letter lowercased
RECURSIVE LowerUnderscored(_, _)
LowerUnderscored(s, inRun) ==
  IF s = <<>> THEN <<>>
  ELSE IF Head(s) \in AlphaNumeric
       THEN toLowerCase(<<Head(s)>>) \o LowerUnderscored(Tail(s), FALSE)
       ELSE (IF inRun THEN <<>> ELSE <<"_">>) \o LowerUnderscored(Tail(s), TRUE)

StubCallReturned ==
  /\ op \in {"serialize", "serializePreset"}
  /\ outcome = "returned"
  /\ preset.serializerId = "stub-zip"

\* C13: the fallback's filename depends on chain.daw only: the lowercased DAW
\* name with runs of non-alphanumerics replaced by "_" (or "tone" when that is
\* empty), followed by "_chain_stub.zip".
C13_StubFilenameFromDawOnly ==
  StubCallReturned =>
    LET name == LowerUnderscored(chain.daw, FALSE)
    IN preset.filename =
         (IF name = <<>> THEN <<"t", "o", "n", "e">> ELSE name)
           \o <<"_", "c", "h", "a", "i", "n", "_", "s", "t", "u", "b", ".", "z", "i", "p">>

\* A chain with a song title and a summary is still named after its DAW.
C13_Witness ==
  /\ StubCallReturned
  /\ Truthy(SongTitle(chain)) /\ Truthy(chain.summary)
  /\ preset.filename =
       <<"m", "y", "_", "d", "a", "w", "_", "c", "h", "a", "i", "n", "_", "s", "t", "u", "b",
         ".", "z", "i", "p">>

(***************************************************************************)
(* C14  The identifier written for a plugin.                               *)
(***************************************************************************)
\* The identifiers a reader finds in the output, in output order
EmittedIdentifiers(id, p) ==
  CASE id = "fl-studio-fst" -> NamesAfter(Body(p), "Name", 1, "\n")
    [] id = "pro-tools-xml" -> NamesAfter(Body(p), "\" identifier=\"", 0, "\" category=\"")
    [] id = "studio-one-preset" -> NamesAfter(Body(p), "<Identifier>", 0, "</Identifier>")
    [] id = "ableton-adg" -> NamesAfter(Body(p), "<PluginIdentifier Value=\"", 0, "\"/>")

\* The slots a serializer looks at, most specific first
SlotPriority(id) ==
  CASE id = "fl-studio-fst" -> <<"flStudio", "vst3", "generic">>
    [] id = "ableton-adg" -> <<"ableton", "vst3", "generic">>
    [] id = "pro-tools-xml" -> <<"proTools", "aax", "generic">>
    [] id = "studio-one-preset" -> <<"studioOne", "vst3", "generic">>

FirstPresentIdentifier(id, plugin) ==
  LET slots == SlotPriority(id)
      present == {i \in 1..Len(slots) :
                    /\ IsSome(plugin.identifiers)
                    /\ IsSome(Get(plugin.identifiers)[slots[i]])}
  IN IF present = {} THEN plugin.name
     ELSE Get(Get(plugin.identifiers)[slots[Min(present)]])

\* The string as the format of the serializer id writes it
AsWritten(id, value) ==
  IF id = "fl-studio-fst" THEN escapeValue(value) ELSE xmlEscape(value)

\* C14: every native serializer writes, for every plugin, the first present of
\* the DAW's own identifier slot, the cross-format slot (vst3, or aax for Pro
\* Tools), generic, and else the display name (in the format's escaped form);
\* an identifier is always written.
C14_IdentifierFirstPresent ==
  NativeCallReturned =>
    LET plugins == sortChainPlugins(chain)
        written == EmittedIdentifiers(preset.serializerId, preset)
    IN /\ Len(written) = Len(plugins)
       /\ \A i \in 1..Len(plugins) :
            /\ written[i]
                 = AsWritten(preset.serializerId,
                             FirstPresentIdentifier(preset.serializerId, plugins[i]))
            /\ written[i] # <<>>

\* Pro Tools falls through its missing own slot to aax, although vst3 and
\* generic are present too.
C14_Witness ==
  /\ op = "serialize"
  /\ target = "pro-tools-xml"
  /\ Len(chain.plugins) = 1
  /\ IsSome(chain.plugins[1].identifiers)
  /\ LET ids == Get(chain.plugins[1].identifiers)
     IN /\ ids.proTools = None
        /\ IsSome(ids.vst3) /\ IsSome(ids.aax) /\ IsSome(ids.generic)
  /\ EmittedIdentifiers(target, preset) = <<SlotValue("aax")>>

(***************************************************************************)
(* C15  The DAW id serializePreset resolves.                               *)
(***************************************************************************)
\* The registered labels that d names, ignoring case and surrounding whitespace
LabelsNamedBy(d) ==
  {i \in 1..Len(DAWS) : toLowerCase(DAWS[i].label) = toLowerCase(trim(d))}

\* The id the claim describes for a chain
ClaimedDawId(c) ==
  IF IsSome(c.dawId) THEN Get(c.dawId)
  ELSE IF LabelsNamedBy(c.daw) # {} THEN DAWS[CHOOSE i \in LabelsNamedBy(c.daw) : TRUE].id
  ELSE UnderscoreWhitespace(toLowerCase(c.daw))

\* C15: serializePreset selects the serializer by chain.dawId when present, else
\* by the id of the label chain.daw when that label is registered, else by
\* chain.daw lowercased with whitespace runs replaced by "_"; the chain handed
\* to the selected serializer carries exactly that id as dawId.
C15_HandedDawId ==
  op = "serializePreset" =>
    LET id == ClaimedDawId(chain)
        hits == {i \in 1..Len(SERIALIZERS) : id \in SERIALIZERS[i].handles}
    IN /\ target = (IF hits = {} THEN "stub-zip" ELSE SERIALIZERS[Min(hits)].id)
       /\ handed.dawId = Some(id)

(***************************************************************************)
(* C16  The calls leave the caller's chain alone.                          *)
(***************************************************************************)
\* C16: after serializePreset, serialize or sortChainPlugins, the caller's
\* chain has the daw, dawId, summary, song, clipWindow and plugins (order and
\* contents) it had before the call.
C16_CallerChainUnchanged ==
  op \in {"sortChainPlugins", "serialize", "serializePreset"} =>
    /\ after.daw = chain.daw
    /\ after.dawId = chain.dawId
    /\ after.summary = chain.summary
    /\ after.song = chain.song
    /\ after.clipWindow = chain.clipWindow
    /\ after.plugins = chain.plugins

\* A native serializer got a resolved dawId and emitted the plugins in another
\* order than the caller listed them.
C16_Witness ==
  /\ op = "serializePreset"
  /\ outcome = "returned"
  /\ target \in NativeTargets
  /\ chain.dawId = None /\ IsSome(handed.dawId)
  /\ EmittedNames(target, preset) = <<<<"N", "m">>, <<"E", "Q">>>>
  /\ chain.plugins[1].name = <<"E", "Q">>
  /\ after = chain

(***************************************************************************)
(* C17  Coverage agrees with dispatch.                                     *)
(***************************************************************************)
\* C17: getExporterCoverage(d).status is "native" exactly when serializePreset
\* on a chain with daw = d and no dawId returns a native preset, and then the
\* coverage names the serializer that produced it; otherwise it is "manual".
C17_CoverageAgreesWithDispatch ==
  op = "getExporterCoverage" =>
    LET dispatched == serializePreset(MkChain(text, None, MetaNone, <<>>))
    IN /\ coverage.status \in {"native", "manual"}
       /\ (coverage.status = "native") <=> dispatched.isNative
       /\ coverage.status = "native" =>
            coverage.serializerId = Some(dispatched.serializerId)

(***************************************************************************)
(* C18  The DAW table.                                                     *)
(***************************************************************************)
RegisteredIds == {DAWS[i].id : i \in 1..Len(DAWS)}

\* The label of the id's segments: "_" becomes a space, and the first
\* character of every segment is uppercased
RECURSIVE TitleCased(_, _)
TitleCased(s, atStart) ==
  IF s = <<>> THEN <<>>
  ELSE IF Head(s) = "_" THEN <<" ">> \o TitleCased(Tail(s), TRUE)
  ELSE (IF atStart THEN <<CHOOSE u \in UpperChars \cup {Head(s)} :
                             IF Head(s) \in LowerChars
                             THEN u \in UpperChars /\ toLowerCase(<<u>>) = <<Head(s)>>
                             ELSE u = Head(s)>>
        ELSE <<Head(s)>>) \o TitleCased(Tail(s), FALSE)

\* C18: ids and labels correspond one to one; labelToDawId answers the id of
\* the registered label its argument spells, whatever the case (surrounding
\* whitespace aside), and none for every other string; dawIdToLabel answers
\* the registered label of a registered id and the title-cased segments of any
\* other id; labelToDawId(dawIdToLabel(id)) = id for every registered id.
C18_DawTableBijection ==
  /\ \A i, j \in 1..Len(DAWS) :
       i # j => /\ DAWS[i].id # DAWS[j].id
                /\ toLowerCase(DAWS[i].label) # toLowerCase(DAWS[j].label)
  /\ op = "labelToDawId" =>
       LET named == IF IsSome(text) THEN LabelsNamedBy(Get(text)) ELSE {}
       IN result = (IF named = {} THEN None ELSE Some(DAWS[CHOOSE i \in named : TRUE].id))
  /\ op = "dawIdToLabel" =>
       IF text \in RegisteredIds
       THEN /\ \E i \in 1..Len(DAWS) : DAWS[i].id = text /\ result = Some(DAWS[i].label)
            /\ labelToDawId(result) = Some(text)
       ELSE result = Some(TitleCased(text, TRUE))

(***************************************************************************)
(* C19  Gaps in the input are not errors.                                  *)
(***************************************************************************)
\* No serializer is registered for the id the chain resolves to
NoSerializerFor(c) ==
  \A i \in 1..Len(SERIALIZERS) : ClaimedDawId(c) \notin SERIALIZERS[i].handles

\* C19: a serialize or serializePreset call whose writer does not fail returns
\* a SerializedPreset of the serializer that ran, whatever is missing from the
\* chain (plugins, identifiers, comment, parameters, song, summary,
\* clipWindow), and serializePreset returns the fallback's preset when no
\* serializer is registered for the DAW.
C19_GapsAreNotErrors ==
  (op \in {"serialize", "serializePreset"} /\ ~writerFails) =>
    /\ outcome = "returned"
    /\ preset.serializerId = target
    /\ preset.filename # <<>>
    /\ preset.data.container # "none"
    /\ (op = "serializePreset" /\ NoSerializerFor(chain)) =>
         preset.serializerId = "stub-zip" /\ ~preset.isNative

\* A native serializer returned for a chain without song, summary and
\* clipWindow whose only plugin has no identifiers, comment or parameters.
C19_Witness ==
  /\ op = "serializePreset"
  /\ outcome = "returned"
  /\ target = "fl-studio-fst"
  /\ chain.song = None /\ chain.summary = None /\ chain.clipWindow = None
  /\ Len(chain.plugins) = 1
  /\ chain.plugins[1].identifiers = None
  /\ chain.plugins[1].comment = None
  /\ chain.plugins[1].parameters = None
  /\ EmittedNames(target, preset) = <<chain.plugins[1].name>>

(***************************************************************************)
(* C20  A failing writer fails the call.                                   *)
(***************************************************************************)
\* C20: when the archive or compression writer fails during the serialize call
\* serializePreset makes, serializePreset ends with that error: no
\* SerializedPreset is returned, neither a partial one nor the fallback's.
C20_WriterFailurePropagates ==
  (op = "serializePreset" /\ writerFails) =>
    /\ outcome = "WriterError"
    /\ preset = NoPreset

\* The Studio One serializer was selected and its zip writer failed.
C20_Witness ==
  /\ op = "serializePreset"
  /\ writerFails
  /\ target = "studio-one-preset"
  /\ outcome = "WriterError"

(***************************************************************************)
(* Repeated and concurrent serializePreset calls.                          *)
(***************************************************************************)
\* The compared parts of two SerializedPreset values
SameOutput(p, q) ==
  /\ p.filename = q.filename
  /\ p.mime = q.mime
  /\ p.serializerId = q.serializerId
  /\ p.isNative = q.isNative
  /\ p.data = q.data

ResolvedCalls == {i \in Callers : calls[i].pc = "resolved"}

\* C21: two serializePreset calls with the same chain resolve with the same
\* filename, mime, serializerId, isNative and data, for every target format,
\* whenever each of them was made.
C21_SerializationDeterministic ==
  \A i, j \in ResolvedCalls :
    calls[i].chain = calls[j].chain => SameOutput(calls[i].preset, calls[j].preset)

\* The same, for the formats JSZip does not write: line text, XML text, gzip
C21_DeterministicOutsideZip ==
  \A i, j \in ResolvedCalls :
    /\ calls[i].chain = calls[j].chain
    /\ calls[i].preset.mime # "application/zip"
    => SameOutput(calls[i].preset, calls[j].preset)

\* Two zip outputs of one chain differ in nothing but the entries' dates
C21_ZipDiffersInDatesOnly ==
  \A i, j \in ResolvedCalls :
    /\ calls[i].chain = calls[j].chain
    /\ calls[i].preset.mime = "application/zip"
    => /\ calls[i].preset.filename = calls[j].preset.filename
       /\ calls[i].preset.serializerId = calls[j].preset.serializerId
       /\ Len(calls[i].preset.data.files) = Len(calls[j].preset.data.files)
       /\ \A k \in 1..Len(calls[i].preset.data.files) :
            /\ calls[i].preset.data.files[k].path = calls[j].preset.data.files[k].path
            /\ calls[i].preset.data.files[k].body = calls[j].preset.data.files[k].body

\* serializePreset of each chain, as members without dates
UndatedResult == [c \in ConcurrentChains |-> serializePreset(c)]

\* What serializePreset(c) resolves with when no other call runs and the
\* clock reads t while the members are added
AloneResult(c, t) ==
  LET p == UndatedResult[c]
  IN IF p.mime = "application/zip"
     THEN [p EXCEPT !.data.files =
             [k \in 1..Len(p.data.files) |->
                [path |-> p.data.files[k].path, body |-> p.data.files[k].body, date |-> t]]]
     ELSE p

\* C22: whatever the other caller does between the start of a serializePreset
\* call and the resolution of its promise, the call resolves with the preset
\* it resolves with when run alone at the same time.
C22_ConcurrentCallsIndependent ==
  \A i \in ResolvedCalls : calls[i].preset = AloneResult(calls[i].chain, calls[i].started)

\* A call has resolved with an archive while an earlier call, writing another
\* archive, is still assembling its own.
C22_Witness ==
  /\ calls[1].pc = "pending"
  /\ calls[2].pc = "resolved"
  /\ calls[2].started > calls[1].started
  /\ calls[1].preset.mime = "application/zip"
  /\ calls[2].preset.mime = "application/zip"
  /\ calls[1].chain # calls[2].chain
  /\ calls[2].preset = AloneResult(calls[2].chain, calls[2].started)

(***************************************************************************)
(* Reading chain.json back: JSON.parse over the tokens of the member.      *)
(***************************************************************************)
JsonBlank == {"\n", "  ", " "}

JsonUnescape(c) ==
  CASE c = "n" -> "\n"
    [] c = "r" -> "\r"
    [] c = "t" -> "\t"
    [] OTHER -> c

\* The string whose opening quote has been read: its characters up to the
\* closing quote, and what follows it
RECURSIVE ParseJsonString(_, _)
ParseJsonString(s, acc) ==
  IF s = <<>> THEN [v |-> JStr(acc), rest |-> <<>>]
  ELSE IF Head(s) = "\"" THEN [v |-> JStr(acc), rest |-> Tail(s)]
  ELSE IF Head(s) = "\\" /\ Len(s) >= 2
       THEN ParseJsonString(Tail(Tail(s)), Append(acc, JsonUnescape(s[2])))
  ELSE ParseJsonString(Tail(s), Append(acc, Head(s)))

RECURSIVE ParseJsonValue(_), ParseJsonItems(_, _), ParseJsonFields(_, _)
ParseJsonValue(s) ==
  LET t == DropWhileIn(s, JsonBlank)
  IN CASE t = <<>> -> [v |-> JNull, rest |-> <<>>]
       [] t # <<>> /\ Head(t) = "null" -> [v |-> JNull, rest |-> Tail(t)]
       [] t # <<>> /\ Head(t) \in {"true", "false"} ->
            [v |-> JBool(Head(t) = "true"), rest |-> Tail(t)]
       [] t # <<>> /\ Head(t) = "[]" -> [v |-> JArr(<<>>), rest |-> Tail(t)]
       [] t # <<>> /\ Head(t) = "{}" -> [v |-> JObj(<<>>), rest |-> Tail(t)]
       [] t # <<>> /\ Head(t) = "\"" -> ParseJsonString(Tail(t), <<>>)
       [] t # <<>> /\ Head(t) = "[" -> ParseJsonItems(Tail(t), <<>>)
       [] t # <<>> /\ Head(t) = "{" -> ParseJsonFields(Tail(t), <<>>)
       [] OTHER -> [v |-> [t |-> "num", n |-> Head(t)], rest |-> Tail(t)]

ParseJsonItems(s, acc) ==
  LET item == ParseJsonValue(s)
      t == DropWhileIn(item.rest, JsonBlank)
  IN IF t # <<>> /\ Head(t) = ","
     THEN ParseJsonItems(Tail(t), Append(acc, item.v))
     ELSE [v |-> JArr(Append(acc, item.v)), rest |-> IF t = <<>> THEN t ELSE Tail(t)]

ParseJsonFields(s, acc) ==
  LET q == DropWhileIn(s, JsonBlank)
      key == ParseJsonString(Tail(q), <<>>)
      colon == DropWhileIn(key.rest, JsonBlank)
      val == ParseJsonValue(Tail(colon))
      t == DropWhileIn(val.rest, JsonBlank)
      field == [k |-> key.v.s, v |-> val.v]
  IN IF t # <<>> /\ Head(t) = ","
     THEN ParseJsonFields(Tail(t), Append(acc, field))
     ELSE [v |-> JObj(Append(acc, field)), rest |-> IF t = <<>> THEN t ELSE Tail(t)]

JsonParse(s) == ParseJsonValue(s).v

\* object[key] of a parsed object: the fields of that name
JsonFieldsNamed(obj, key) ==
  IF obj.t # "obj" THEN <<>>
  ELSE SelectSeq(obj.fields, LAMBDA f : f.k = key)

\* The archive member of the given path
MembersAt(p, path) == SelectSeq(p.data.files, LAMBDA f : f.path = path)

\* A call of the fallback serializer has returned: through serializePreset,
\* for a chain no registered serializer handles, or directly
FallbackReturned ==
  /\ op \in {"serializePreset", "serialize"}
  /\ target = "stub-zip"
  /\ outcome = "returned"

\* The parsed plugin names the same name, type and settings as the plugin
SamePluginData(parsed, plugin) ==
  /\ JsonFieldsNamed(parsed, <<"name">>) = <<[k |-> <<"name">>, v |-> JStr(plugin.name)]>>
  /\ JsonFieldsNamed(parsed, <<"type">>) = <<[k |-> <<"type">>, v |-> JStr(plugin.type)]>>
  /\ LET settings == JsonFieldsNamed(parsed, <<"settings">>)
     IN /\ Len(settings) = 1
        /\ settings[1].v.t = "obj"
        /\ Len(settings[1].v.fields) = Len(plugin.settings)
        /\ \A i \in 1..Len(plugin.settings) :
             /\ settings[1].v.fields[i].k = plugin.settings[i].key
             /\ settings[1].v.fields[i].v = JStr(plugin.settings[i].value)

\* C23: the fallback's archive holds exactly the members README.txt,
\* chain.json and clipboard.txt, and JSON.parse of chain.json gives a plugin
\* list with the length, order, names, types and settings of chain.plugins.
C23_StubArchiveRoundTrip ==
  FallbackReturned =>
    /\ preset.data.container = "zip"
    /\ [k \in 1..Len(preset.data.files) |-> preset.data.files[k].path]
         = <<"README.txt", "chain.json", "clipboard.txt">>
    /\ LET listed == JsonFieldsNamed(JsonParse(MembersAt(preset, "chain.json")[1].body),
                                     <<"plugins">>)
       IN /\ Len(listed) = 1
          /\ listed[1].v.t = "arr"
          /\ Len(listed[1].v.items) = Len(handed.plugins)
          /\ \A i \in 1..Len(handed.plugins) :
               SamePluginData(listed[1].v.items[i], handed.plugins[i])

\* The fallback was selected for a chain whose two plugins are listed against
\* their slot order, and for one whose settings need JSON escapes.
C23_Witness ==
  /\ FallbackReturned
  /\ op = "serializePreset"
  /\ handed.plugins = OutOfOrderPair
  /\ MembersAt(preset, "chain.json") # <<>>

C23_WitnessEscapes ==
  /\ FallbackReturned
  /\ Len(handed.plugins) = 1
  /\ \E i \in 1..Len(handed.plugins[1].settings) :
       Contains(handed.plugins[1].settings[i].value, "\r")
  /\ Contains(MembersAt(preset, "chain.json")[1].body, "\\")

(***************************************************************************)
(* The Ableton rack.                                                       *)
(***************************************************************************)
AbletonReturned ==
  /\ op \in {"serializePreset", "serialize"}
  /\ target = "ableton-adg"
  /\ outcome = "returned"

CreatorMarker ==
  "<Ableton MajorVersion=\"11\" MinorVersion=\"0\" SchemaChangeCount=\"0\" Creator=\"ToneTerminal\">"

\* The negation of the plugin's bypassed flag, true when the flag is absent
EnabledFlag(plugin) == IF IsSome(plugin.bypassed) THEN ~Get(plugin.bypassed) ELSE TRUE

\* C24: the gunzipped Ableton output carries the creator marker and exactly
\* one Device element per plugin, in sortChainPlugins order; the k-th device
\* (from 0) has PresentationIndex k and IsEnabled equal to the negation of
\* the plugin's bypassed flag, true when the flag is absent.
C24_AbletonDevices ==
  AbletonReturned =>
    LET body == Body(preset)
        ordered == sortChainPlugins(handed)
        at == PositionsOf(body, "<Device>")
    IN /\ preset.data.container = "gzip"
       /\ Contains(body, CreatorMarker)
       /\ Len(at) = Len(ordered)
       /\ Len(PositionsOf(body, "</Device>")) = Len(ordered)
       /\ \A k \in 1..Len(ordered) :
            LET device == Between(body, at[k], "</Device>")
            IN /\ NamesAfter(device, "<PresetName Value=\"", 0, "\"/>")
                    = <<xmlEscape(ordered[k].name)>>
               /\ NamesAfter(device, "<PresentationIndex Value=\"", 0, "\"/>")
                    = << <<ToString(k - 1)>> >>
               /\ NamesAfter(device, "<IsEnabled Value=\"", 0, "\"/>")
                    = << <<IF EnabledFlag(ordered[k]) THEN "true" ELSE "false">> >>

\* A rack of two plugins listed against their slot order, the first of them
\* bypassed: the bypassed one is the second device, disabled.
C24_Witness ==
  /\ AbletonReturned
  /\ Len(handed.plugins) = 2
  /\ handed.plugins[1].bypassed = Some(TRUE)
  /\ handed.plugins[2].bypassed = None
  /\ sortChainPlugins(handed) = <<handed.plugins[2], handed.plugins[1]>>
  /\ NamesAfter(Body(preset), "<IsEnabled Value=\"", 0, "\"/>") = << <<"true">>, <<"false">> >>
  /\ NamesAfter(Body(preset), "<PresentationIndex Value=\"", 0, "\"/>") = << <<"0">>, <<"1">> >>

(***************************************************************************)
(* The plugin name in the output of the native serializers.                *)
(***************************************************************************)
\* The tokens of run appear in s, in order and next to each other
ContainsRun(s, run) ==
  \E i \in 1..(Len(s) - Len(run) + 1) : SubSeq(s, i, i + Len(run) - 1) = run

\* A native serializer was called with a chain of one plugin that has only a
\* name, a type and empty settings, and its writer did not fail
MinimalPluginCall ==
  /\ op = "serialize"
  /\ target \in NativeTargets
  /\ chain \in NameChains
  /\ ~writerFails

\* The characters a format does not write as they are
EscapedCharacters(id) ==
  IF id = "fl-studio-fst" THEN {"=", "\n", "\r"} ELSE {"&", "<", ">", "\"", "'"}

EmittedSettingLines(body) ==
  LET at == PositionsOf(body, "      - ")
  IN [i \in 1..Len(at) |->
        LET key == Between(body, at[i] + 1, ": ")
        IN <<key, Between(body, at[i] + 1 + Len(key) + 1, "\n")>>]

\* The indices of the parameter entries, in output order, where the format
\* carries one
EmittedIndices(id, body) ==
  CASE id = "fl-studio-fst" ->
         LET lines == SelectSeq(SplitLines(body), StartsWithParam)
         IN [i \in 1..Len(lines) |-> lines[i][2]]
    [] id \in {"pro-tools-xml", "studio-one-preset"} ->
         LET at == PositionsOf(body, "<Parameter index=\"")
         IN [i \in 1..Len(at) |-> body[at[i] + 1]]

\* A serializer has returned for a chain whose plugins all have settings
\* entries and no parameters (absent or empty)
SettingsOnlyCall ==
  /\ op = "serialize"
  /\ outcome = "returned"
  /\ target \in DirectTargets
  /\ chain.plugins # <<>>
  /\ \A i \in 1..Len(chain.plugins) :
       HasSettings(chain.plugins[i]) /\ ~HasParameters(chain.plugins[i])

\* C26: for plugins with settings entries and no parameters, the parameter
\* entries every serializer emits are the settings key/value pairs (in the
\* format's escaped form), one per pair, in the settings' iteration order
\* and numbered 0..n-1 per plugin where the format numbers them.
C26_SettingsEnumerated ==
  SettingsOnlyCall =>
    LET ordered == IF target = "stub-zip" THEN chain.plugins ELSE sortChainPlugins(chain)
        written(v) == IF target = "stub-zip" THEN v ELSE AsWritten(target, v)
        pairs == Join([i \in 1..Len(ordered) |->
                         [j \in 1..Len(ordered[i].settings) |->
                            <<written(ordered[i].settings[j].key),
                              written(ordered[i].settings[j].value)>>]], <<>>)
        numbers == Join([i \in 1..Len(ordered) |->
                           [j \in 1..Len(ordered[i].settings) |-> ToString(j - 1)]], <<>>)
    IN /\ target \in NativeTargets => EmittedParameters(target, Body(preset)) = pairs
       /\ target = "stub-zip" => EmittedSettingLines(Body(preset)) = pairs
       /\ target \in {"fl-studio-fst", "pro-tools-xml", "studio-one-preset"} =>
            EmittedIndices(target, Body(preset)) = numbers

\* Two plugins with two settings each and no parameters (one without the
\* property, one with an empty list), written to the FL Studio text in slot
\* order with the numbering starting again for the second plugin.
C26_Witness ==
  /\ SettingsOnlyCall
  /\ target = "fl-studio-fst"
  /\ Len(chain.plugins) = 2
  /\ chain.plugins[1].parameters = Some(<<>>)
  /\ chain.plugins[2].parameters = None
  /\ sortChainPlugins(chain) # chain.plugins
  /\ EmittedIndices(target, Body(preset)) = <<"0", "1", "0", "1">>

(***************************************************************************)
(* C27: in every successful response of the export-preset route, the       *)
(* header X-ToneTerminal-Native is "true" exactly when the header          *)
(* X-ToneTerminal-Target is not "manual".                                  *)
(***************************************************************************)
SuccessfulExports ==
  {s \in Slots : /\ requests[s].kind = "export"
                 /\ requests[s].pc = "done"
                 /\ requests[s].response.status = 200}

C27_NativeHeaderAgreesWithTarget ==
  \A s \in SuccessfulExports :
    (requests[s].response.native = "true") <=> (requests[s].response.target # "manual")

\* The headers agree when the body names a DAW by its registered label or by
\* a name no serializer handles
C27_AgreesOutsideAliases ==
  \A s \in SuccessfulExports :
    requests[s].input.daw \in {<<"F", "L", " ", "S", "t", "u", "d", "i", "o">>,
                               <<"B", "i", "t", "w", "i", "g">>}
      => ((requests[s].response.native = "true")
            <=> (requests[s].response.target # "manual"))

(***************************************************************************)
(* C28: when the Stripe webhook has handled a checkout.session.completed   *)
(* event, or a subscription created/updated event with status active or   *)
(* trialing, for a user, that user's stored tier normalizes to a paid plan *)
(* and passes the canExportPreset gate of the export-preset route with the *)
(* plan-gate bypass off.                                                   *)
(***************************************************************************)
UpgradeEvent(r) ==
  /\ r.kind = "webhook"
  /\ r.input.user # ""
  /\ \/ r.input.event = "checkout.session.completed"
     \/ /\ r.input.event = "customer.subscription.updated"
        /\ r.input.status \in {"active", "trialing"}

\* The webhook in slot s answers 200 to an upgrade event in this step
UpgradeHandled(s) ==
  /\ UpgradeEvent(requests[s])
  /\ requests[s].pc = "tier"
  /\ requests'[s].pc = "done"
  /\ requests'[s].response.status = 200

\* The plan the export route's gate sees for a stored row, bypass off
GatePlan(row) ==
  LET id == IF row.tier = <<>> THEN <<"f", "r", "e", "e">>
            ELSE IF toLowerCase(row.tier) \in {PLANS[i].id : i \in 1..Len(PLANS)}
            THEN toLowerCase(row.tier)
            ELSE <<"f", "r", "e", "e">>
  IN PLANS[CHOOSE i \in 1..Len(PLANS) : PLANS[i].id = id]

C28_UpgradeUnlocksExport ==
  [][\A s \in Slots :
       UpgradeHandled(s)
         => LET row == profiles'[requests[s].input.user]
            IN /\ row.present
               /\ GatePlan(row).id # <<"f", "r", "e", "e">>
               /\ GatePlan(row).canExportPreset]_vars

(***************************************************************************)
(* C29: for any interleaving of k decrementCredits calls for the same user *)
(* that all complete, starting from stored credits c within the plan       *)
(* limit, the stored credits afterwards equal max(0, c - k).               *)
(***************************************************************************)
DecrementCalls(u) ==
  {s \in Slots : requests[s].kind = "decrement" /\ requests[s].input.user = u}

AllCompleted(u) ==
  \A s \in DecrementCalls(u) :
    requests[s].pc = "done" /\ requests[s].response.status = 200

C29_NoDecrementLost ==
  \A u \in Users :
    (seeded[u].present /\ DecrementCalls(u) # {} /\ AllCompleted(u))
      => LET c == seeded[u].credits
             k == Cardinality(DecrementCalls(u))
         IN profiles[u].credits = (IF c - k > 0 THEN c - k ELSE 0)

\* A call that no other call overlaps decrements by one, down to 0
C29_OneCallDecrements ==
  \A u \in Users :
    (seeded[u].present /\ Cardinality(DecrementCalls(u)) = 1 /\ AllCompleted(u))
      => profiles[u].credits =
           (IF seeded[u].credits > 1 THEN seeded[u].credits - 1 ELSE 0)

(***************************************************************************)
(* C30: in every state of the profiles table reached after a profile       *)
(* operation completes, the stored credits of each user lie within         *)
(* 0..generationsPerMonth of the plan the stored tier normalizes to.       *)
(***************************************************************************)
C30_StoredCreditsWithinPlan ==
  \A u \in Users :
    profiles[u].present
      => /\ profiles[u].credits >= 0
         /\ profiles[u].credits <= GatePlan(profiles[u]).generationsPerMonth

====
